---- MODULE Spec2Model ----
(***************************************************************************)
(* Kamilly Play (src/src/App.tsx): the strum scheduler, the two bar        *)
(* players (single chord / sequence) driven by interval timers, the        *)
(* sound-font audio device they wait for, and the editable sequence.       *)
(*                                                                         *)
(* Execution model: the browser event loop.  Every action below is one     *)
(* macrotask (a click, a select change, an interval callback, the          *)
(* resolution of a browser promise) except Microtask, which runs the       *)
(* continuation of an async function whose awaited promise has resolved;   *)
(* microtasks run before the next macrotask.                               *)
(*                                                                         *)
(* Encodings: array indices are 0-based as in the source (a sequence       *)
(* element k of the source is element k+1 here); the muted string "x" is   *)
(* X; times are integers in units of 1/TimeDen second, velocities in       *)
(* units of 1/VelDen, durations in milliseconds.                           *)
(***************************************************************************)
EXTENDS Integers, Sequences, FiniteSets, TLC

(* ---------------------------------------------------------------------- *)
(* Bounds of the model                                                     *)
(* ---------------------------------------------------------------------- *)
\* number of UI setting changes / sequence edits explored in one run
MaxEdits == 1
\* longest sequence the append button is pressed up to
MaxLen == 5
\* play handlers that may be suspended on the audio device at once
MaxPending == 2
\* number of sequence edits explored by the sequence editor alone
MaxSeqEdits == 5
MaxShowEdits == 2

(* ---------------------------------------------------------------------- *)
(* Static data                                                             *)
(* ---------------------------------------------------------------------- *)
X == -1
NULL == 0

TUNING_MIDI == <<40, 45, 50, 55, 59, 64>>

CHROMA == <<"C","C#","D","D#","E","F","F#","G","G#","A","A#","B">>

PATTERNS ==
  [
    down8  |-> [steps |-> <<"D","D","D","D","D","D","D","D">>, accents |-> {0,4}],
    folk1  |-> [steps |-> <<"D","-","D","U","-","U","D","U">>, accents |-> {0,2,6}],
    pop1   |-> [steps |-> <<"D","-","U","U","-","U","-","U">>, accents |-> {0,2,5}],
    rock1  |-> [steps |-> <<"D","D","U","-","U","D","U","-">>, accents |-> {0,1,5}],
    reggae |-> [steps |-> <<"-","U","-","U","-","U","-","U">>, accents |-> {1,3,5,7}],
    bossa  |-> [steps |-> <<"D","-","D","U","-","U","-","U">>, accents |-> {0,2,5}]
  ]

CHORDS ==
  [
    C |-> << <<X,3,2,0,1,0>>, <<3,3,2,0,1,0>>, <<X,3,2,0,3,3>>, <<X,3,5,5,5,3>>, <<8,10,10,9,8,8>> >>,
    Cmaj7 |-> << <<X,3,2,0,0,0>>, <<X,3,5,4,5,3>> >>,
    C7 |-> << <<X,3,2,3,1,0>>, <<X,3,5,3,5,3>> >>,
    Cm |-> << <<X,3,5,5,4,3>>, <<8,10,8,8,8,8>> >>,
    Cm7 |-> << <<X,3,5,3,4,3>> >>,
    Cdim |-> << <<X,X,1,2,1,2>>, <<X,3,4,2,4,2>> >>,
    D |-> << <<X,X,0,2,3,2>>, <<2,X,0,2,3,2>>, <<X,5,7,7,7,5>> >>,
    Dmaj7 |-> << <<X,X,0,2,2,2>>, <<X,5,7,6,7,5>> >>,
    D7 |-> << <<X,X,0,2,1,2>>, <<X,5,7,5,7,5>> >>,
    Dm |-> << <<X,X,0,2,3,1>>, <<X,5,7,7,6,5>> >>,
    Dm7 |-> << <<X,X,0,2,1,1>>, <<X,5,7,5,6,5>> >>,
    Ddim |-> << <<X,X,0,1,0,1>>, <<X,5,6,4,6,4>> >>,
    E |-> << <<0,2,2,1,0,0>>, <<4,2,2,1,0,0>>, <<12,14,14,13,12,12>> >>,
    Emaj7 |-> << <<0,2,1,1,0,0>>, <<X,X,2,4,4,4>> >>,
    E7 |-> << <<0,2,0,1,0,0>>, <<X,X,2,4,3,4>> >>,
    Em |-> << <<0,2,2,0,0,0>>, <<X,7,9,9,8,7>> >>,
    Em7 |-> << <<0,2,0,0,0,0>>, <<0,2,2,0,3,0>> >>,
    Edim |-> << <<X,X,2,3,2,3>>, <<X,7,8,6,8,6>> >>,
    F |-> << <<1,3,3,2,1,1>>, <<X,X,3,2,1,0>> >>,
    Fmaj7 |-> << <<X,X,3,2,1,0>>, <<1,3,2,2,1,1>> >>,
    F7 |-> << <<1,3,1,2,1,1>>, <<X,X,3,5,4,5>> >>,
    Fm |-> << <<1,3,3,1,1,1>> >>,
    Fm7 |-> << <<1,3,1,1,1,1>> >>,
    Fdim |-> << <<X,X,3,4,3,4>>, <<1,2,3,1,3,1>> >>,
    G |-> << <<3,2,0,0,0,3>>, <<3,5,5,4,3,3>> >>,
    Gmaj7 |-> << <<3,2,0,0,0,2>>, <<3,5,4,4,3,3>> >>,
    G7 |-> << <<3,2,0,0,0,1>>, <<3,5,3,4,3,3>> >>,
    Gm |-> << <<3,5,5,3,3,3>> >>,
    Gm7 |-> << <<3,5,3,3,3,3>> >>,
    Gdim |-> << <<X,X,5,6,5,6>>, <<3,4,5,3,5,3>> >>,
    A |-> << <<X,0,2,2,2,0>>, <<5,7,7,6,5,5>> >>,
    Amaj7 |-> << <<X,0,2,1,2,0>>, <<5,7,6,6,5,5>> >>,
    A7 |-> << <<X,0,2,0,2,0>>, <<5,7,5,6,5,5>> >>,
    Am |-> << <<X,0,2,2,1,0>>, <<5,7,7,5,5,5>> >>,
    Am7 |-> << <<X,0,2,0,1,0>>, <<5,7,5,5,5,5>> >>,
    Adim |-> << <<X,0,1,2,1,2>>, <<X,X,7,8,7,8>> >>,
    B |-> << <<X,2,4,4,4,2>>, <<7,9,9,8,7,7>> >>,
    Bmaj7 |-> << <<X,2,4,3,4,2>> >>,
    B7 |-> << <<X,2,1,2,0,2>>, <<7,9,7,8,7,7>> >>,
    Bm |-> << <<X,2,4,4,3,2>>, <<7,9,9,7,7,7>> >>,
    Bm7 |-> << <<X,2,4,2,3,2>>, <<X,2,0,2,0,2>> >>,
    Bdim |-> << <<X,2,3,4,3,4>>, <<X,X,9,10,9,10>> >>
  ]

CHORD_KEYS == DOMAIN CHORDS

\* execution parameters (useState constants without setters)
bpm == 92
\* swing fraction 0.08, in hundredths
swing == 8
strumMs == 12
\* sustain 0.24 s, in milliseconds
sustain == 240
\* minimum duration of the root hit, 0.22 s in milliseconds
RootMinDur == 220
StepsPerBar == 8

\* a time t seconds is the integer t * TimeDen
TimeDen == 1000 * bpm
\* a velocity v is the integer v * VelDen
VelDen == 10 * 100 * 100

Min2(a, b) == IF a < b THEN a ELSE b
Max2(a, b) == IF a > b THEN a ELSE b

RECURSIVE SeqMin(_)
SeqMin(s) == IF Len(s) = 1 THEN s[1] ELSE Min2(s[1], SeqMin(Tail(s)))

(* ---------------------------------------------------------------------- *)
(* Strum scheduler                                                         *)
(* ---------------------------------------------------------------------- *)
\* mutant: every step is pushed, whatever its parity
swingPush_everyStep(stepIdx) == (swing * 60 * TimeDen) \div (100 * bpm * 2)

\* swingPush = (stepIdx % 2 === 1) ? swing * (60 / bpm) / 2 : 0
swingPush(stepIdx) ==
  IF stepIdx % 2 = 1 THEN (swing * 60 * TimeDen) \div (100 * bpm * 2) ELSE 0

\* mutant: the gaps are counted from the far end of the order array
strumWhen_fromEnd(i, stepIdx) ==
  ((5 - i) * strumMs * TimeDen) \div 1000 + swingPush(stepIdx)

\* when = i * (strumMs/1000) + swingPush
strumWhen(i, stepIdx) == (i * strumMs * TimeDen) \div 1000 + swingPush(stepIdx)

\* mutant: the accent is not applied
strumVel_noAccent(i, isDown, accent) ==
  LET raw == 9 * (IF isDown THEN 100 - 5 * i ELSE 100 - 4 * i) * 100
  IN  Max2(VelDen \div 10, Min2(VelDen, raw))

\* vel = baseVel * (isDown ? 1 - i*0.05 : 1 - i*0.04) * (accent ? 1.0 : 0.85),
\* then Math.max(0.1, Math.min(1, vel))
strumVel(i, isDown, accent) ==
  LET raw == 9 * (IF isDown THEN 100 - 5 * i ELSE 100 - 4 * i)
               * (IF accent THEN 100 ELSE 85)
  IN  Max2(VelDen \div 10, Min2(VelDen, raw))

\* mutant: both strokes visit the strings low to high
strumOrder_lowToHigh(isDown) == <<0,1,2,3,4,5>>

\* order = isDown ? [0,1,2,3,4,5] : [5,4,3,2,1,0]
strumOrder(isDown) == IF isDown THEN <<0,1,2,3,4,5>> ELSE <<5,4,3,2,1,0>>

\* accMap = Array(8).fill(false).map((_,i) => accents.includes(i))
accentMap(pat) == [i \in 0..(StepsPerBar - 1) |-> i \in PATTERNS[pat].accents]

\* the loop body of playChordStrum for position i of the order array
RECURSIVE strumFrom(_, _, _, _, _)
strumFrom(i, shape, accMap, isDown, stepIdx) ==
  IF i >= Len(strumOrder(isDown)) THEN <<>>
  ELSE LET s == strumOrder(isDown)[i + 1]
           v == shape[s + 1]
           rest == strumFrom(i + 1, shape, accMap, isDown, stepIdx)
       IN  IF v = X THEN rest
           ELSE << [midi |-> TUNING_MIDI[s + 1] + v,
                    when |-> strumWhen(i, stepIdx),
                    dur  |-> sustain,
                    vel  |-> strumVel(i, isDown, accMap[stepIdx % 8])] >> \o rest

\* mutant: the gap is counted over the sounding strings only
RECURSIVE strumCompact(_, _, _, _, _, _)
strumCompact(i, n, shape, accMap, isDown, stepIdx) ==
  IF i >= Len(strumOrder(isDown)) THEN <<>>
  ELSE LET s == strumOrder(isDown)[i + 1]
           v == shape[s + 1]
       IN  IF v = X THEN strumCompact(i + 1, n, shape, accMap, isDown, stepIdx)
           ELSE << [midi |-> TUNING_MIDI[s + 1] + v,
                    when |-> strumWhen(n, stepIdx),
                    dur  |-> sustain,
                    vel  |-> strumVel(n, isDown, accMap[stepIdx % 8])] >>
                \o strumCompact(i + 1, n + 1, shape, accMap, isDown, stepIdx)

playChordStrum_compact(shape, accMap, isDown, stepIdx) ==
  strumCompact(0, 0, shape, accMap, isDown, stepIdx)

\* the playMidi calls of one strum, in call order
playChordStrum(shape, accMap, isDown, stepIdx) ==
  strumFrom(0, shape, accMap, isDown, stepIdx)

(* ---------------------------------------------------------------------- *)
(* Root reinforcement                                                      *)
(* ---------------------------------------------------------------------- *)
RECURSIVE midisFrom(_, _)
midisFrom(s, shape) ==
  IF s >= 6 THEN <<>>
  ELSE IF shape[s + 1] = X THEN midisFrom(s + 1, shape)
       ELSE <<TUNING_MIDI[s + 1] + shape[s + 1]>> \o midisFrom(s + 1, shape)

\* mutant: an open string is skipped like a muted one (as the preview does)
voicingMidis_skipOpen(shape) ==
  midisFrom(0, [s \in 1..6 |-> IF shape[s] = 0 THEN X ELSE shape[s]])

voicingMidis(shape) == midisFrom(0, shape)

\* CHROMA.indexOf(n): 0-based index, -1 when absent
toIndex(n) ==
  IF \E i \in 1..Len(CHROMA) : CHROMA[i] = n
  THEN (CHOOSE i \in 1..Len(CHROMA) : CHROMA[i] = n) - 1
  ELSE -1

\* mutant: the lowest pitch is taken whatever the root is
findRootMidi_lowest(midis, rootName) == SeqMin(midis)

findRootMidi(midis, rootName) ==
  LET targetPc == toIndex(rootName)
      candidates == SelectSeq(midis, LAMBDA m : ((m % 12) + 12) % 12 = targetPc)
  IN  IF Len(candidates) > 0 THEN SeqMin(candidates) ELSE SeqMin(midis)

\* mutant: the root is hit with the base velocity of a strum (0.9)
playRootHit_strumVel(shape, rootName) ==
  LET mids == voicingMidis(shape)
  IN  IF Len(mids) = 0 THEN <<>>
      ELSE << [midi |-> findRootMidi(mids, rootName),
               when |-> 0,
               dur  |-> Max2(RootMinDur, sustain),
               vel  |-> (9 * VelDen) \div 10] >>

\* the playMidi calls of playRootHit: none for an all-muted voicing
playRootHit(shape, rootName) ==
  LET mids == voicingMidis(shape)
  IN  IF Len(mids) = 0 THEN <<>>
      ELSE << [midi |-> findRootMidi(mids, rootName),
               when |-> 0,
               dur  |-> Max2(RootMinDur, sustain),
               vel  |-> VelDen] >>

(* ---------------------------------------------------------------------- *)
(* Chord symbols, progressions, the sequence built from a key              *)
(* ---------------------------------------------------------------------- *)
Qualities == {"", "m", "7", "m7", "maj7", "dim"}

\* the regular expression of parseChordSymbol splits a symbol into its root
\* (a sharp root is tried before a natural one) and its quality
parseChordSymbol(sym) ==
  CHOOSE p \in [root : {CHROMA[i] : i \in 1..Len(CHROMA)}, qual : Qualities] :
    p.root \o p.qual = sym

InChords(k) == k \in CHORD_KEYS

mapSymbolToDictKey(sym) ==
  IF InChords(sym) THEN sym
  ELSE LET p == parseChordSymbol(sym)
       IN  IF p.qual = "maj7" /\ InChords(p.root \o "maj7") THEN p.root \o "maj7"
           ELSE IF p.qual = "maj7" /\ InChords(p.root) THEN p.root
           ELSE IF p.qual = "m7" /\ InChords(p.root \o "m7") THEN p.root \o "m7"
           ELSE IF p.qual = "m7" /\ InChords(p.root \o "m") THEN p.root \o "m"
           ELSE IF p.qual = "7" /\ InChords(p.root \o "7") THEN p.root \o "7"
           ELSE IF p.qual = "7" /\ InChords(p.root) THEN p.root
           ELSE IF p.qual = "m" /\ InChords(p.root \o "m") THEN p.root \o "m"
           ELSE IF p.qual = "m" /\ InChords(p.root) THEN p.root
           ELSE IF p.qual = "dim" /\ InChords(p.root \o "dim") THEN p.root \o "dim"
           ELSE IF p.qual = "dim" /\ InChords(p.root \o "m") THEN p.root \o "m"
           ELSE IF p.qual = "dim" /\ InChords(p.root) THEN p.root
           ELSE "C"

toPc(n) == toIndex(n)
nameForPc(pc) == CHROMA[((((pc % 12) + 12) % 12)) + 1]

PROGRESSIONS ==
  "I-IV-V" :> <<
      [semitones |-> 0, quality |-> "", alternatives |-> <<"7", "maj7">>],
      [semitones |-> 5, quality |-> "", alternatives |-> <<"7", "maj7">>],
      [semitones |-> 7, quality |-> "", alternatives |-> <<"7">>] >>
  @@
  "I-V-vi-IV" :> <<
      [semitones |-> 0, quality |-> "", alternatives |-> <<"maj7">>],
      [semitones |-> 7, quality |-> "", alternatives |-> <<"7">>],
      [semitones |-> 9, quality |-> "m", alternatives |-> <<"m7">>],
      [semitones |-> 5, quality |-> "", alternatives |-> <<"maj7">>] >>
  @@
  "ii-V-I" :> <<
      [semitones |-> 2, quality |-> "m7", alternatives |-> <<"m">>],
      [semitones |-> 7, quality |-> "7", alternatives |-> <<"">>],
      [semitones |-> 0, quality |-> "maj7", alternatives |-> <<"">>] >>
  @@
  "I-vi-IV-V" :> <<
      [semitones |-> 0, quality |-> "", alternatives |-> <<"maj7">>],
      [semitones |-> 9, quality |-> "m", alternatives |-> <<"m7">>],
      [semitones |-> 5, quality |-> "", alternatives |-> <<"maj7">>],
      [semitones |-> 7, quality |-> "", alternatives |-> <<"7">>] >>
  @@
  "I-ii-iii-IV-V-vi-vii" :> <<
      [semitones |-> 0, quality |-> "", alternatives |-> <<"maj7">>],
      [semitones |-> 2, quality |-> "m", alternatives |-> <<"m7">>],
      [semitones |-> 4, quality |-> "m", alternatives |-> <<"m7">>],
      [semitones |-> 5, quality |-> "", alternatives |-> <<"maj7">>],
      [semitones |-> 7, quality |-> "", alternatives |-> <<"7">>],
      [semitones |-> 9, quality |-> "m", alternatives |-> <<"m7">>],
      [semitones |-> 11, quality |-> "dim", alternatives |-> <<"m7">>] >>
  @@
  "I-IV-I-V" :> <<
      [semitones |-> 0, quality |-> "7", alternatives |-> <<"">>],
      [semitones |-> 5, quality |-> "7", alternatives |-> <<"">>],
      [semitones |-> 0, quality |-> "7", alternatives |-> <<"">>],
      [semitones |-> 7, quality |-> "7", alternatives |-> <<"">>] >>
  @@
  "vi-IV-I-V" :> <<
      [semitones |-> 9, quality |-> "m", alternatives |-> <<"m7">>],
      [semitones |-> 5, quality |-> "", alternatives |-> <<"maj7">>],
      [semitones |-> 0, quality |-> "", alternatives |-> <<"maj7">>],
      [semitones |-> 7, quality |-> "", alternatives |-> <<"7">>] >>

\* root name + quality suffix, as both symbol builders spell it
degreeSymbol(root, quality) ==
  IF quality \in {"m", "7", "m7", "maj7", "dim"} THEN root \o quality ELSE root

buildSequenceFromProgression(tonicRoot, progressionKey) ==
  IF progressionKey \notin DOMAIN PROGRESSIONS THEN <<>>
  ELSE LET degrees == PROGRESSIONS[progressionKey]
           base == toPc(tonicRoot)
       IN  [i \in 1..Len(degrees) |->
              degreeSymbol(nameForPc(base + degrees[i].semitones), degrees[i].quality)]

\* symbols.map((sym, i) => ({ key: mapSymbolToDictKey(sym), varIdx: 0, degreeIdx: i }))
sequenceFromSymbols(symbols) ==
  [i \in 1..Len(symbols) |->
     [key |-> mapSymbolToDictKey(symbols[i]), varIdx |-> 0, degreeIdx |-> i - 1]]

getAlternativesForDegree(degreeIdx, key, progression) ==
  IF progression \notin DOMAIN PROGRESSIONS
       \/ degreeIdx >= Len(PROGRESSIONS[progression])
  THEN <<>>
  ELSE LET deg == PROGRESSIONS[progression][degreeIdx + 1]
           root == nameForPc(toPc(key) + deg.semitones)
           all == <<degreeSymbol(root, deg.quality)>>
                    \o [j \in 1..Len(deg.alternatives) |->
                          degreeSymbol(root, deg.alternatives[j])]
       IN  SelectSeq(all, LAMBDA sym : InChords(mapSymbolToDictKey(sym)))

\* Math.min(varIdx, variants.length - 1): the voicing of a chord key
voicingOf(key, varIdx) ==
  CHORDS[key][Min2(varIdx, Len(CHORDS[key]) - 1) + 1]

(* ---------------------------------------------------------------------- *)
(* State                                                                   *)
(* ---------------------------------------------------------------------- *)
VARIABLES
  \* useSF: the audio context, the loaded instrument, the loading latch
  ctxState, instRef, loadingRef,
  \* App state (useState)
  patternId, chordKey, variantIdx, key, progression,
  sequence, currentBar, loopSequence, loopSingle,
  isPlayingSingle, isPlayingSequence,
  \* App refs (useRef)
  singleTimerRef, singleStepIdxRef, seqTimerRef, seqStepIdxRef, seqBarIdxRef,
  \* the browser: live interval timers, async calls suspended on a promise
  timers, pend,
  \* observation: the last interval callback, the running sessions, the
  \* number of controls used, the last control used (with the sequence it
  \* found), the player whose stop button was pressed last with no press of
  \* its play button since; a session records whether its play found the
  \* other player's timer running
  lastTick, singleSess, seqSess, edits, lastEdit, stopped,
  \* the strum scheduler applied to a drawn input
  strumIn, strumOut,
  \* the root lookup and the pitch detection applied to a drawn input
  rootIn, rootOut, pitchIn, pitchOut,
  \* useChromaticTuner: state and refs
  running, freq, note, cents, srcRef, rafRef,
  \* the browser: microphone streams handed out, animation-frame callbacks
  \* scheduled, getUserMedia requests not yet answered
  streams, rafs, micPend,
  \* useChromaticTuner's own ctxRef; the browser: the audio contexts
  \* constructed so far
  tunerCtxRef, audioCtxs,
  \* observation: the last tuner operation, what autoCorrelate returned to
  \* the last run of loop(), the caller whose await of the audio device was
  \* rejected last
  tunerLast, heard, lastReject

audioVars == <<ctxState, instRef, loadingRef>>
uiVars == <<patternId, chordKey, variantIdx, key, progression, sequence,
            loopSequence, loopSingle, edits, lastEdit>>
playerVars == <<currentBar, isPlayingSingle, isPlayingSequence,
                singleTimerRef, singleStepIdxRef, seqTimerRef, seqStepIdxRef,
                seqBarIdxRef, timers, lastTick, singleSess, seqSess>>
strumVars == <<strumIn, strumOut>>
pureVars == <<rootIn, rootOut, pitchIn, pitchOut>>
tunerVars == <<running, freq, note, cents, srcRef, rafRef, streams, rafs,
               micPend, tunerCtxRef, audioCtxs, tunerLast, heard>>
vars == <<audioVars, uiVars, playerVars, pend, stopped, strumVars, pureVars, tunerVars, lastReject>>

NoTick == [owner |-> "none"]
NoSess == [on |-> FALSE]
NoStrum == [set |-> FALSE]
NoOut == [done |-> FALSE, calls |-> <<>>]
NoRoot == [set |-> FALSE]
NoRootOut == [done |-> FALSE, midis |-> <<>>, root |-> NULL, calls |-> <<>>]
NoScores == [set |-> FALSE]
NoDetect == [done |-> FALSE, f |-> NULL]
StrumIdle == strumIn = NoStrum /\ strumOut = NoOut
RootIdle == rootIn = NoRoot /\ rootOut = NoRootOut
PitchIdle == pitchIn = NoScores /\ pitchOut = NoDetect
NoEdit == [op |-> "none", idx |-> -1, before |-> <<>>]

\* what a handler of one render closes over (the fields its player reads)
SingleEnv == [loop |-> loopSingle, pat |-> patternId,
              chord |-> chordKey, vidx |-> variantIdx, seq |-> <<>>]
SeqEnv == [loop |-> loopSequence, pat |-> patternId,
           chord |-> "", vidx |-> 0, seq |-> sequence]
NoEnv == [loop |-> FALSE, pat |-> "", chord |-> "", vidx |-> 0, seq |-> <<>>]

\* the player state the handlers and interval callbacks work on
Player ==
  [timers |-> timers,
   singleTimerRef |-> singleTimerRef, singleStepIdxRef |-> singleStepIdxRef,
   seqTimerRef |-> seqTimerRef, seqStepIdxRef |-> seqStepIdxRef,
   seqBarIdxRef |-> seqBarIdxRef,
   currentBar |-> currentBar,
   isPlayingSingle |-> isPlayingSingle, isPlayingSequence |-> isPlayingSequence,
   lastTick |-> lastTick, singleSess |-> singleSess, seqSess |-> seqSess]

SetPlayer(p) ==
  /\ timers' = p.timers
  /\ singleTimerRef' = p.singleTimerRef
  /\ singleStepIdxRef' = p.singleStepIdxRef
  /\ seqTimerRef' = p.seqTimerRef
  /\ seqStepIdxRef' = p.seqStepIdxRef
  /\ seqBarIdxRef' = p.seqBarIdxRef
  /\ currentBar' = p.currentBar
  /\ isPlayingSingle' = p.isPlayingSingle
  /\ isPlayingSequence' = p.isPlayingSequence
  /\ lastTick' = p.lastTick
  /\ singleSess' = p.singleSess
  /\ seqSess' = p.seqSess

(* ---------------------------------------------------------------------- *)
(* Interval timers                                                         *)
(* ---------------------------------------------------------------------- *)
\* window.setInterval returns a positive handle not in use
newTimerId(T) ==
  CHOOSE n \in 1..(Cardinality(T) + 1) :
    /\ \A t \in T : t.id # n
    /\ \A m \in 1..(n - 1) : \E t \in T : t.id = m

\* Array.prototype.splice(i - 1, 1) on a copy
RemoveAt(s, i) == SubSeq(s, 1, i - 1) \o SubSeq(s, i + 1, Len(s))

\* window.clearInterval; a null handle clears nothing
clearInterval(T, id) == {t \in T : t.id # id}

\* mutant: the handle is dropped but the interval is not cleared
clearSingleTimer_refOnly(p) == [p EXCEPT !.singleTimerRef = NULL]

\* if (ref.current) { clearInterval(ref.current); ref.current = null; }
clearSingleTimer(p) ==
  IF p.singleTimerRef # NULL
  THEN [p EXCEPT !.timers = clearInterval(@, p.singleTimerRef),
                 !.singleTimerRef = NULL]
  ELSE p

\* mutant: the sequence handle is dropped but its interval is not cleared
clearSeqTimer_refOnly(p) == [p EXCEPT !.seqTimerRef = NULL]

clearSeqTimer(p) ==
  IF p.seqTimerRef # NULL
  THEN [p EXCEPT !.timers = clearInterval(@, p.seqTimerRef),
                 !.seqTimerRef = NULL]
  ELSE p

\* the playMidi calls one interval callback makes, in call order: while
\* the sound font is not loaded playMidi rejects after ensure(), which ends
\* the loop of playChordStrum awaiting it after its first call
tickCalls(rootNotes, strumNotes) ==
  rootNotes \o (IF instRef = "loaded" THEN strumNotes
                ELSE SubSeq(strumNotes, 1, Min2(1, Len(strumNotes))))

\* mutant: the root is hit only when step 0 is a stroke
rootCalls_onStroke(idx, st, shape, rootName) ==
  IF idx = 0 /\ st # "-" THEN playRootHit(shape, rootName) ELSE <<>>

\* if (idx === 0) { void playRootHit(voicing, rootName); }
rootCalls(idx, st, shape, rootName) ==
  IF idx = 0 THEN playRootHit(shape, rootName) ELSE <<>>

\* mutant: the stroke is not tested, a rest is strummed like an up stroke
tickRecord_strumsRests(prev, owner, bar, stepIdx, st, shape, rootName, accMap) ==
  LET idx == stepIdx % 8
      rootNotes == rootCalls(idx, st, shape, rootName)
      strumNotes == playChordStrum(shape, accMap, st = "D", stepIdx)
  IN  [owner |-> owner, bar |-> bar, idx |-> idx, st |-> st,
       rootHit |-> (idx = 0), rootNotes |-> rootNotes,
       strummed |-> TRUE, isDown |-> (st = "D"), stepIdx |-> stepIdx,
       calls |-> tickCalls(rootNotes, strumNotes),
       barRoots |-> (IF stepIdx = 0 \/ prev.owner = "none" THEN 0 ELSE prev.barRoots)
                      + Len(rootNotes)]

\* what one interval callback did, for the observation lastTick
tickRecord(prev, owner, bar, stepIdx, st, shape, rootName, accMap) ==
  LET idx == stepIdx % 8
      rootNotes == rootCalls(idx, st, shape, rootName)
      strumNotes == IF st # "-"
                    THEN playChordStrum(shape, accMap, st = "D", stepIdx)
                    ELSE <<>>
  IN  [owner |-> owner, bar |-> bar, idx |-> idx, st |-> st,
       rootHit |-> (idx = 0), rootNotes |-> rootNotes,
       strummed |-> (st # "-"), isDown |-> (st = "D"), stepIdx |-> stepIdx,
       calls |-> tickCalls(rootNotes, strumNotes),
       \* root hits since the bar began (the step index was last 0)
       barRoots |-> (IF stepIdx = 0 \/ prev.owner = "none" THEN 0 ELSE prev.barRoots)
                      + Len(rootNotes)]

(* ---------------------------------------------------------------------- *)
(* Single-chord player                                                     *)
(* ---------------------------------------------------------------------- *)
\* mutant: the step index is not reset when the bar starts
playSingleChordBar_keepStep(p, env) ==
  LET id == newTimerId(p.timers)
  IN  [p EXCEPT !.timers = @ \cup {[id |-> id, owner |-> "single",
                                    env |-> env, bar |-> 0]},
                !.singleTimerRef = id]

\* playSingleChordBar of the render whose closure is env
playSingleChordBar(p, env) ==
  LET id == newTimerId(p.timers)
  IN  [p EXCEPT !.singleStepIdxRef = 0,
                !.timers = @ \cup {[id |-> id, owner |-> "single",
                                    env |-> env, bar |-> 0]},
                !.singleTimerRef = id]

\* mutant: the bar ends the session whatever the loop flag says
singleBarEnd_noLoop(p, t) ==
  IF p.singleStepIdxRef >= StepsPerBar
  THEN [p EXCEPT !.timers = clearInterval(@, p.singleTimerRef),
                 !.singleTimerRef = NULL,
                 !.isPlayingSingle = FALSE]
  ELSE p

\* the end of the callback: if (singleStepIdxRef.current >= 8) { ... }
singleBarEnd(p, t) ==
  IF p.singleStepIdxRef >= StepsPerBar
  THEN IF t.env.loop
       THEN [p EXCEPT !.singleStepIdxRef = 0]
       ELSE [p EXCEPT !.timers = clearInterval(@, p.singleTimerRef),
                      !.singleTimerRef = NULL,
                      !.isPlayingSingle = FALSE]
  ELSE p

\* mutant: the bar is taken to end one step late (> 8 in place of >= 8)
singleTick_lateEnd(p, t) ==
  LET stepIdx == p.singleStepIdxRef
      idx == stepIdx % 8
      st == PATTERNS[t.env.pat].steps[idx + 1]
      rec == tickRecord(p.lastTick, "single", 0, stepIdx, st,
                        voicingOf(t.env.chord, t.env.vidx),
                        parseChordSymbol(t.env.chord).root,
                        accentMap(t.env.pat))
      sess == IF p.singleSess.on /\ ~p.singleSess.loop
              THEN [p.singleSess EXCEPT !.n = @ + 1] ELSE p.singleSess
      p1 == [p EXCEPT !.lastTick = rec, !.singleSess = sess,
                      !.singleStepIdxRef = stepIdx + 1]
  IN  IF p1.singleStepIdxRef > StepsPerBar THEN singleBarEnd(p1, t) ELSE p1

\* the interval callback of playSingleChordBar, for the live timer t
singleTick(p, t) ==
  LET stepIdx == p.singleStepIdxRef
      idx == stepIdx % 8
      st == PATTERNS[t.env.pat].steps[idx + 1]
      rec == tickRecord(p.lastTick, "single", 0, stepIdx, st,
                        voicingOf(t.env.chord, t.env.vidx),
                        parseChordSymbol(t.env.chord).root,
                        accentMap(t.env.pat))
      sess == IF p.singleSess.on /\ ~p.singleSess.loop
              THEN [p.singleSess EXCEPT !.n = @ + 1] ELSE p.singleSess
      p1 == [p EXCEPT !.lastTick = rec, !.singleSess = sess,
                      !.singleStepIdxRef = stepIdx + 1]
  IN  singleBarEnd(p1, t)

\* mutant: the single-chord play leaves the bar highlight as it is
handlePlaySingle_keepHighlight(p, env) ==
  LET p1 == clearSingleTimer(clearSeqTimer(p))
      p2 == [p1 EXCEPT !.isPlayingSequence = FALSE,
                       !.isPlayingSingle = TRUE,
                       !.lastTick = NoTick,
                       !.seqSess = NoSess,
                       !.singleSess = [on |-> TRUE, loop |-> env.loop, n |-> 0,
                                       len |-> 1,
                                       took |-> (p.seqTimerRef # NULL)]]
  IN  playSingleChordBar(p2, env)

\* handlePlaySingle after "await startAudio()"
handlePlaySingle(p, env) ==
  LET p1 == clearSingleTimer(clearSeqTimer(p))
      p2 == [p1 EXCEPT !.isPlayingSequence = FALSE,
                       !.isPlayingSingle = TRUE,
                       !.currentBar = -1,
                       !.lastTick = NoTick,
                       !.seqSess = NoSess,
                       !.singleSess = [on |-> TRUE, loop |-> env.loop, n |-> 0,
                                       len |-> 1,
                                       took |-> (p.seqTimerRef # NULL)]]
  IN  playSingleChordBar(p2, env)

\* mutant: stop clears the flag and leaves the interval running
handleStopSingle_flagOnly(p) ==
  [p EXCEPT !.isPlayingSingle = FALSE, !.singleSess = NoSess]

handleStopSingle(p) ==
  [clearSingleTimer(p) EXCEPT !.isPlayingSingle = FALSE,
                              !.singleSess = NoSess]

(* ---------------------------------------------------------------------- *)
(* Sequence player                                                         *)
(* ---------------------------------------------------------------------- *)
\* mutant: the step index is not reset when a bar starts
playSequenceBar_keepStep(p, env, barIdx) ==
  LET id == newTimerId(p.timers)
  IN  [p EXCEPT !.currentBar = barIdx,
                !.timers = @ \cup {[id |-> id, owner |-> "seq",
                                    env |-> env, bar |-> barIdx]},
                !.seqTimerRef = id]

\* playSequenceBar(barIdx) of the render whose closure is env
playSequenceBar(p, env, barIdx) ==
  LET id == newTimerId(p.timers)
  IN  [p EXCEPT !.currentBar = barIdx,
                !.seqStepIdxRef = 0,
                !.timers = @ \cup {[id |-> id, owner |-> "seq",
                                    env |-> env, bar |-> barIdx]},
                !.seqTimerRef = id]

\* mutant: the last bar ends without clearing the highlight
seqBarEnd_keepHighlight(p, t) ==
  IF p.seqStepIdxRef >= StepsPerBar
  THEN LET p2 == [p EXCEPT !.timers = clearInterval(@, p.seqTimerRef),
                           !.seqTimerRef = NULL,
                           !.seqBarIdxRef = @ + 1]
       IN  IF p2.seqBarIdxRef >= Len(t.env.seq)
           THEN IF t.env.loop
                THEN playSequenceBar([p2 EXCEPT !.seqBarIdxRef = 0], t.env, 0)
                ELSE [p2 EXCEPT !.isPlayingSequence = FALSE]
           ELSE playSequenceBar(p2, t.env, p2.seqBarIdxRef)
  ELSE p

\* the end of the callback: if (seqStepIdxRef.current >= 8) { ... }
seqBarEnd(p, t) ==
  IF p.seqStepIdxRef >= StepsPerBar
  THEN LET p2 == [p EXCEPT !.timers = clearInterval(@, p.seqTimerRef),
                           !.seqTimerRef = NULL,
                           !.seqBarIdxRef = @ + 1]
       IN  IF p2.seqBarIdxRef >= Len(t.env.seq)
           THEN IF t.env.loop
                THEN playSequenceBar([p2 EXCEPT !.seqBarIdxRef = 0], t.env, 0)
                ELSE [p2 EXCEPT !.currentBar = -1,
                                !.isPlayingSequence = FALSE]
           ELSE playSequenceBar(p2, t.env, p2.seqBarIdxRef)
  ELSE p

\* mutant: the callback reads the pattern selected now
seqTick_livePattern(p, t) ==
  LET stepIdx == p.seqStepIdxRef
      idx == stepIdx % 8
      item == t.env.seq[t.bar + 1]
      st == PATTERNS[patternId].steps[idx + 1]
      rec == tickRecord(p.lastTick, "seq", t.bar, stepIdx, st,
                        voicingOf(item.key, item.varIdx),
                        parseChordSymbol(item.key).root,
                        accentMap(patternId))
      sess == IF p.seqSess.on /\ ~p.seqSess.loop
              THEN [p.seqSess EXCEPT !.n = @ + 1] ELSE p.seqSess
      p1 == [p EXCEPT !.lastTick = rec, !.seqSess = sess,
                      !.seqStepIdxRef = stepIdx + 1]
  IN  seqBarEnd(p1, t)

\* the interval callback of playSequenceBar(t.bar), for the live timer t
seqTick(p, t) ==
  LET stepIdx == p.seqStepIdxRef
      idx == stepIdx % 8
      item == t.env.seq[t.bar + 1]
      st == PATTERNS[t.env.pat].steps[idx + 1]
      rec == tickRecord(p.lastTick, "seq", t.bar, stepIdx, st,
                        voicingOf(item.key, item.varIdx),
                        parseChordSymbol(item.key).root,
                        accentMap(t.env.pat))
      sess == IF p.seqSess.on /\ ~p.seqSess.loop
              THEN [p.seqSess EXCEPT !.n = @ + 1] ELSE p.seqSess
      p1 == [p EXCEPT !.lastTick = rec, !.seqSess = sess,
                      !.seqStepIdxRef = stepIdx + 1]
  IN  seqBarEnd(p1, t)

\* mutant: the sequence play leaves the single-chord timer running
handlePlaySequence_keepSingle(p, env) ==
  LET p1 == clearSeqTimer(p)
      p2 == [p1 EXCEPT !.isPlayingSingle = FALSE,
                       !.isPlayingSequence = TRUE,
                       !.seqBarIdxRef = 0,
                       !.lastTick = NoTick,
                       !.singleSess = NoSess,
                       !.seqSess = [on |-> TRUE, loop |-> env.loop, n |-> 0,
                                    len |-> Len(env.seq),
                                    took |-> (p.singleTimerRef # NULL)]]
  IN  playSequenceBar(p2, env, 0)

\* handlePlaySequence after "await startAudio()"
handlePlaySequence(p, env) ==
  LET p1 == clearSeqTimer(clearSingleTimer(p))
      p2 == [p1 EXCEPT !.isPlayingSingle = FALSE,
                       !.isPlayingSequence = TRUE,
                       !.seqBarIdxRef = 0,
                       !.lastTick = NoTick,
                       !.singleSess = NoSess,
                       !.seqSess = [on |-> TRUE, loop |-> env.loop, n |-> 0,
                                    len |-> Len(env.seq),
                                    took |-> (p.singleTimerRef # NULL)]]
  IN  playSequenceBar(p2, env, 0)

\* mutant: stop only resets the display state
handleStopSequence_flagsOnly(p) ==
  [p EXCEPT !.currentBar = -1, !.isPlayingSequence = FALSE, !.seqSess = NoSess]

handleStopSequence(p) ==
  [clearSeqTimer(p) EXCEPT !.currentBar = -1,
                           !.isPlayingSequence = FALSE,
                           !.seqSess = NoSess]

(* ---------------------------------------------------------------------- *)
(* Chromatic tuner (useChromaticTuner)                                     *)
(* ---------------------------------------------------------------------- *)
MaxMic == 3

NOTE_NAMES == <<"C","C#","D","D#","E","F","F#","G","G#","A","A#","B">>

\* what the loop derives from a detected frequency f (Hz):
\* midi = Math.round(69 + 12*log2(f/440)), cents = Math.round(1200 *
\* log2(f / (440 * 2^((midi-69)/12)))), for the frequencies fed to it
Detected ==
  { [f |-> 262, midi |-> 60, cents |-> 2],
    [f |-> 440, midi |-> 69, cents |-> 0],
    [f |-> 452, midi |-> 69, cents |-> 47] }

\* autoCorrelate returns -1 when the buffer is silent or aperiodic
NoPitch == [f |-> -1, midi |-> 0, cents |-> 0]

\* name + Math.floor(midi/12 - 1)
noteLabel(midi) ==
  NOTE_NAMES[((((midi % 12) + 12) % 12)) + 1] \o ToString(midi \div 12 - 1)

\* the lags scanned are MIN_SAMPLES..(MaxLag - 1); the source scans up to
\* MAX_SAMPLES - 1 = 1023
MaxLag == 37
MIN_SAMPLES == 32

\* scores (corr) are in hundredths, frequencies returned in thousandths of Hz
ScoreDen == 100
FreqDen == 1000

\* the for loop of autoCorrelate from lag offset on: best is {bestOf, bestI}
RECURSIVE lagScan(_, _, _, _)
lagScan(scores, offset, lastCorr, best) ==
  IF offset >= MaxLag THEN best
  ELSE LET corr == scores[offset]
           nb == IF corr > (9 * ScoreDen) \div 10 /\ corr > lastCorr
                 THEN [bestOf |-> corr, bestI |-> offset]
                 ELSE best
       IN  lagScan(scores, offset + 1, corr, nb)

\* mutant: the first lag that qualifies is kept, not the last
autoCorrelate_firstPeak(in) ==
  LET q == {o \in (MIN_SAMPLES + 1)..(MaxLag - 1) :
              /\ in.scores[o] > (9 * ScoreDen) \div 10
              /\ in.scores[o] > in.scores[o - 1]}
  IN  IF in.silent \/ q = {} THEN NoPitch.f
      ELSE (in.sampleRate * FreqDen) \div (CHOOSE o \in q : \A p \in q : o <= p)

\* autoCorrelate on a buffer whose RMS is below 0.01 (silent) or whose
\* per-lag scores are in.scores
autoCorrelate(in) ==
  IF in.silent THEN NoPitch.f
  ELSE LET b == lagScan(in.scores, MIN_SAMPLES, ScoreDen,
                        [bestOf |-> -ScoreDen, bestI |-> -1])
       IN  IF b.bestOf > ScoreDen \div 100
           THEN (in.sampleRate * FreqDen) \div b.bestI
           ELSE NoPitch.f

Tuner ==
  [running |-> running, freq |-> freq, note |-> note, cents |-> cents,
   srcRef |-> srcRef, rafRef |-> rafRef, streams |-> streams, rafs |-> rafs,
   micPend |-> micPend, ctxRef |-> tunerCtxRef, audioCtxs |-> audioCtxs,
   heard |-> heard]

SetTuner(T) ==
  /\ running' = T.running /\ freq' = T.freq /\ note' = T.note /\ cents' = T.cents
  /\ srcRef' = T.srcRef /\ rafRef' = T.rafRef
  /\ streams' = T.streams /\ rafs' = T.rafs /\ micPend' = T.micPend
  /\ tunerCtxRef' = T.ctxRef /\ audioCtxs' = T.audioCtxs
  /\ heard' = T.heard

\* a positive handle not in use
newHandle(ids) ==
  CHOOSE n \in 1..(Cardinality(ids) + 1) :
    n \notin ids /\ \A m \in 1..(n - 1) : m \in ids

\* the context useSF.ensure constructed for the preview when the component
\* mounted: the first one
sfCtxRef == newHandle({})

TunerInit ==
  /\ running = FALSE /\ freq = NULL /\ note = "-" /\ cents = 0
  /\ srcRef = NULL /\ rafRef = NULL
  /\ streams = {} /\ rafs = {} /\ micPend = <<>>
  /\ tunerCtxRef = NULL /\ audioCtxs = {sfCtxRef}
  /\ tunerLast = "none" /\ heard = NULL


\* start up to its await: if (running) return; setRunning(true); ...
\* await navigator.mediaDevices.getUserMedia(...)
\* if (!ctxRef.current) ctxRef.current = new AudioContext()
tunerNewContext(T) ==
  IF T.ctxRef # NULL THEN T
  ELSE LET c == newHandle(T.audioCtxs)
       IN  [T EXCEPT !.ctxRef = c, !.audioCtxs = @ \cup {c}]

tunerStart(T) ==
  IF T.running THEN T
  ELSE [tunerNewContext(T) EXCEPT !.running = TRUE,
                                  !.micPend = Append(@, [stale |-> FALSE])]

\* mutant: a run that hears nothing clears what was published
tunerLoop_clearOnSilence(T, s, d) ==
  LET id == newHandle({r.id : r \in T.rafs})
      T1 == IF ~(d.f > 0) THEN [T EXCEPT !.freq = NULL, !.note = "-", !.cents = 0]
            ELSE [T EXCEPT !.freq = d.f, !.note = noteLabel(d.midi),
                           !.cents = d.cents]
  IN  [T1 EXCEPT !.rafs = @ \cup {[id |-> id, stream |-> s]},
                 !.rafRef = id,
                 !.heard = d.f]

\* one run of loop() over the analyser of stream s, autoCorrelate giving
\* d (an element of Detected) or NoPitch: if (f > 0) publish; then request
\* the next frame
tunerLoop(T, s, d) ==
  LET id == newHandle({r.id : r \in T.rafs})
      T1 == IF ~(d.f > 0) THEN T
            ELSE [T EXCEPT !.freq = d.f, !.note = noteLabel(d.midi),
                           !.cents = d.cents]
  IN  [T1 EXCEPT !.rafs = @ \cup {[id |-> id, stream |-> s]},
                 !.rafRef = id,
                 !.heard = d.f]

\* start after its await resolved with a new stream: srcRef, analyser, loop()
tunerStartResume(T, i, d) ==
  LET s  == newHandle({x.id : x \in T.streams})
      T1 == [T EXCEPT !.micPend = RemoveAt(@, i),
                      !.streams = @ \cup {[id |-> s, open |-> TRUE,
                                           stale |-> T.micPend[i].stale]},
                      !.srcRef = s]
  IN  tunerLoop(T1, s, d)

\* start whose await rejected: nothing after the await runs
tunerStartReject(T, i) == [T EXCEPT !.micPend = RemoveAt(@, i)]

\* stop: cancel the frame in rafRef, stop the tracks of srcRef, reset
tunerStop(T) ==
  [T EXCEPT !.rafs = {r \in @ : r.id # T.rafRef},
            !.rafRef = NULL,
            !.streams = {IF x.id = T.srcRef THEN [x EXCEPT !.open = FALSE] ELSE x :
                           x \in @},
            !.srcRef = NULL,
            !.running = FALSE, !.freq = NULL, !.note = "-", !.cents = 0,
            \* observation: the requests still waiting were made before this stop
            !.micPend = [j \in 1..Len(@) |-> [stale |-> TRUE]]]

\* what autoCorrelate can return on the buffer of stream s: a stopped track
\* delivers silence
detectable(T, s) ==
  IF \E x \in T.streams : x.id = s /\ x.open THEN Detected \cup {NoPitch}
  ELSE {NoPitch}

NotTuner == UNCHANGED <<audioVars, uiVars, playerVars, pend, stopped,
                        strumVars, pureVars, lastReject>>

\* "Iniciar", shown while !tuner.running
TunerStartClick ==
  /\ ~running
  /\ Cardinality(streams) + Len(micPend) < MaxMic
  /\ SetTuner(tunerStart(Tuner))
  /\ tunerLast' = "start"
  /\ NotTuner

\* mutant: stopping the tuner also stops whatever is playing
TunerStopClick_stopsPlayback ==
  /\ running
  /\ SetTuner(tunerStop(Tuner))
  /\ tunerLast' = "stop"
  /\ SetPlayer(handleStopSequence(handleStopSingle(Player)))
  /\ UNCHANGED <<audioVars, uiVars, pend, stopped, strumVars, pureVars, lastReject>>

\* "Parar", shown while tuner.running
TunerStopClick ==
  /\ running
  /\ SetTuner(tunerStop(Tuner))
  /\ tunerLast' = "stop"
  /\ NotTuner

\* the user grants the microphone: getUserMedia resolves
MicGranted ==
  /\ \E i \in 1..Len(micPend) : \E d \in Detected \cup {NoPitch} :
       SetTuner(tunerStartResume(Tuner, i, d))
  /\ tunerLast' = "granted"
  /\ NotTuner

\* the user denies the microphone or there is none: getUserMedia rejects
MicDenied ==
  /\ \E i \in 1..Len(micPend) :
       /\ SetTuner(tunerStartReject(Tuner, i))
       /\ tunerLast' = IF micPend[i].stale THEN "deniedStale" ELSE "denied"
  /\ NotTuner

\* an animation frame: a scheduled loop() runs
TunerFrame ==
  /\ \E r \in rafs : \E d \in detectable(Tuner, r.stream) :
       SetTuner(tunerLoop([Tuner EXCEPT !.rafs = @ \ {r}], r.stream, d))
  /\ tunerLast' = "frame"
  /\ NotTuner

(* ---------------------------------------------------------------------- *)
(* Initial state: the component is mounted and its preview effect has run  *)
(* its synchronous part, which creates the audio context                   *)
(* ---------------------------------------------------------------------- *)
initialSeq == sequenceFromSymbols(buildSequenceFromProgression("C", "I-V-vi-IV"))

\* inputs the controls are driven with
ModelPatterns == {"folk1", "reggae"}
ModelChords == {"C", "Em"}
ModelKeys == {"C", "G"}
ModelProgressions == {"I-V-vi-IV", "I-IV-V"}
ModelBarChords == {"Am", "Cm7"}

AppInit ==
  /\ patternId = "folk1"
  /\ chordKey = "C" /\ variantIdx = 0
  /\ key = "C" /\ progression = "I-V-vi-IV"
  /\ sequence = initialSeq
  /\ currentBar = -1
  /\ loopSequence = TRUE /\ loopSingle = FALSE
  /\ isPlayingSingle = FALSE /\ isPlayingSequence = FALSE
  /\ singleTimerRef = NULL /\ singleStepIdxRef = 0
  /\ seqTimerRef = NULL /\ seqStepIdxRef = 0 /\ seqBarIdxRef = 0
  /\ timers = {}
  /\ lastTick = NoTick /\ singleSess = NoSess /\ seqSess = NoSess
  /\ edits = 0
  /\ lastEdit = NoEdit
  /\ stopped = "none"
  /\ instRef = "null"
  /\ TunerInit
  /\ lastReject = "none"
  \* a context created without a user gesture starts suspended where the
  \* browser blocks autoplay and running where it does not
  /\ \/ /\ ctxState = "suspended" /\ loadingRef = FALSE
        /\ pend = << [kind |-> "preview", at |-> "resume", env |-> NoEnv] >>
     \/ /\ ctxState = "running" /\ loadingRef = TRUE
        /\ pend = << [kind |-> "preview", at |-> "load", env |-> NoEnv] >>

Init == AppInit /\ StrumIdle /\ RootIdle /\ PitchIdle

(* ---------------------------------------------------------------------- *)
(* startAudio / ensure and the async handlers waiting on them              *)
(* ---------------------------------------------------------------------- *)
NoReady == \A i \in 1..Len(pend) : pend[i].at # "ready"

PendingPlays == Cardinality({i \in 1..Len(pend) : pend[i].kind # "preview"})

\* what runs after "await startAudio()" in the caller
Complete(kind, env) ==
  SetPlayer(CASE kind = "single" -> handlePlaySingle(Player, env)
              [] kind = "seq" -> handlePlaySequence(Player, env)
              [] OTHER -> Player)

\* a call of startAudio(): ensure() waits for resume() while the context
\* is not running, then loads the sound font unless it is loaded or being
\* loaded; with nothing to wait for the caller continues in this task
Call(kind, env) ==
  IF ctxState # "running"
  THEN /\ pend' = Append(pend, [kind |-> kind, at |-> "resume", env |-> env])
       /\ UNCHANGED <<audioVars, playerVars>>
  ELSE IF instRef = "null" /\ ~loadingRef
  THEN /\ pend' = Append(pend, [kind |-> kind, at |-> "load", env |-> env])
       /\ loadingRef' = TRUE
       /\ UNCHANGED <<ctxState, instRef, playerVars>>
  ELSE /\ Complete(kind, env)
       /\ UNCHANGED <<audioVars, pend>>

\* the browser starts the context: every pending resume() resolves
ResumeGranted ==
  /\ NoReady
  /\ ctxState = "suspended"
  /\ ctxState' = "running"
  /\ pend' = [i \in 1..Len(pend) |->
                IF pend[i].at = "resume" THEN [pend[i] EXCEPT !.at = "ready"]
                ELSE pend[i]]
  /\ UNCHANGED <<instRef, loadingRef, uiVars, playerVars, stopped, strumVars, pureVars, tunerVars, lastReject>>

\* Soundfont.instrument resolves in the call that started the load
FontLoaded ==
  /\ NoReady
  /\ \E i \in 1..Len(pend) :
       /\ pend[i].at = "load"
       /\ pend' = [pend EXCEPT ![i].at = "ready"]
  /\ instRef' = "loaded"
  /\ loadingRef' = FALSE
  /\ UNCHANGED <<ctxState, uiVars, playerVars, stopped, strumVars, pureVars, tunerVars, lastReject>>

\* the continuation of the oldest resolved await
Microtask ==
  /\ ~NoReady
  /\ LET i == CHOOSE j \in 1..Len(pend) :
                /\ pend[j].at = "ready"
                /\ \A k \in 1..(j - 1) : pend[k].at # "ready"
         e == pend[i]
     IN  IF instRef = "null" /\ ~loadingRef
         THEN /\ loadingRef' = TRUE
              /\ pend' = [pend EXCEPT ![i].at = "load"]
              /\ UNCHANGED <<ctxState, instRef, playerVars>>
         ELSE /\ pend' = RemoveAt(pend, i)
              /\ Complete(e.kind, e.env)
              /\ UNCHANGED audioVars
  /\ UNCHANGED <<uiVars, stopped, strumVars, pureVars, tunerVars, lastReject>>

\* "await startAudio()" throws in a play handler (or in the preview): the
\* statements after it do not run and nothing catches the rejection
afterReject_proceeds(P, kind, env) ==
  CASE kind = "single" -> handlePlaySingle(P, env)
    [] kind = "seq" -> handlePlaySequence(P, env)
    [] OTHER -> P

afterReject(P, kind, env) == P

\* ctx.resume() of one waiting call rejects: the context stays suspended
ResumeRejected ==
  /\ NoReady
  /\ ctxState = "suspended"
  /\ \E i \in 1..Len(pend) :
       /\ pend[i].at = "resume"
       /\ pend' = RemoveAt(pend, i)
       /\ SetPlayer(afterReject(Player, pend[i].kind, pend[i].env))
       /\ lastReject' = pend[i].kind
  /\ UNCHANGED <<audioVars, uiVars, stopped, strumVars, pureVars, tunerVars>>

\* Soundfont.instrument rejects in the call that started the load: instRef
\* stays null and "loadingRef.current = false" is never reached
FontFailed ==
  /\ NoReady
  /\ \E i \in 1..Len(pend) :
       /\ pend[i].at = "load"
       /\ pend' = RemoveAt(pend, i)
       /\ SetPlayer(afterReject(Player, pend[i].kind, pend[i].env))
       /\ lastReject' = pend[i].kind
  /\ UNCHANGED <<audioVars, uiVars, stopped, strumVars, pureVars, tunerVars>>

(* ---------------------------------------------------------------------- *)
(* Buttons of the two players                                              *)
(* ---------------------------------------------------------------------- *)
\* "Tocar Acorde": disabled={isPlayingSequence}
PlaySingleClick ==
  /\ NoReady
  /\ ~isPlayingSequence
  /\ PendingPlays < MaxPending
  /\ Call("single", SingleEnv)
  /\ stopped' = IF stopped = "single" THEN "none" ELSE stopped
  /\ UNCHANGED <<uiVars, strumVars, pureVars, tunerVars, lastReject>>

\* "Parar" of the single chord: disabled={!isPlayingSingle}
StopSingleClick ==
  /\ NoReady
  /\ isPlayingSingle
  /\ SetPlayer(handleStopSingle(Player))
  /\ stopped' = "single"
  /\ UNCHANGED <<audioVars, uiVars, pend, strumVars, pureVars, tunerVars, lastReject>>

\* "Tocar Sequencia": disabled={isPlayingSingle}
PlaySequenceClick ==
  /\ NoReady
  /\ ~isPlayingSingle
  /\ PendingPlays < MaxPending
  /\ Call("seq", SeqEnv)
  /\ stopped' = IF stopped = "seq" THEN "none" ELSE stopped
  /\ UNCHANGED <<uiVars, strumVars, pureVars, tunerVars, lastReject>>

\* "Parar" of the sequence: disabled={!isPlayingSequence}
StopSequenceClick ==
  /\ NoReady
  /\ isPlayingSequence
  /\ SetPlayer(handleStopSequence(Player))
  /\ stopped' = "seq"
  /\ UNCHANGED <<audioVars, uiVars, pend, strumVars, pureVars, tunerVars, lastReject>>

(* ---------------------------------------------------------------------- *)
(* Interval callbacks                                                      *)
(* ---------------------------------------------------------------------- *)
SingleTick ==
  /\ NoReady
  /\ \E t \in timers :
       /\ t.owner = "single"
       /\ SetPlayer(singleTick(Player, t))
  /\ UNCHANGED <<audioVars, uiVars, pend, stopped, strumVars, pureVars, tunerVars, lastReject>>

SeqTick ==
  /\ NoReady
  /\ \E t \in timers :
       /\ t.owner = "seq"
       /\ SetPlayer(seqTick(Player, t))
  /\ UNCHANGED <<audioVars, uiVars, pend, stopped, strumVars, pureVars, tunerVars, lastReject>>

(* ---------------------------------------------------------------------- *)
(* Controls: pattern, loop flags, quick chord selection                    *)
(* ---------------------------------------------------------------------- *)
ModelVariants == {0, 1}

\* a control is used between tasks; every use is counted
CanEdit == NoReady

SelectPattern(p) ==
  /\ CanEdit
  /\ p # patternId
  /\ patternId' = p
  /\ edits' = edits + 1
  /\ lastEdit' = [NoEdit EXCEPT !.op = "pattern"]
  /\ UNCHANGED <<chordKey, variantIdx, key, progression, sequence,
                 loopSequence, loopSingle>>
  /\ UNCHANGED <<audioVars, playerVars, pend, stopped, strumVars, pureVars, tunerVars, lastReject>>

ToggleLoopSingle ==
  /\ CanEdit
  /\ loopSingle' = ~loopSingle
  /\ edits' = edits + 1
  /\ lastEdit' = [NoEdit EXCEPT !.op = "loopSingle"]
  /\ UNCHANGED <<patternId, chordKey, variantIdx, key, progression, sequence,
                 loopSequence>>
  /\ UNCHANGED <<audioVars, playerVars, pend, stopped, strumVars, pureVars, tunerVars, lastReject>>

ToggleLoopSequence ==
  /\ CanEdit
  /\ loopSequence' = ~loopSequence
  /\ edits' = edits + 1
  /\ lastEdit' = [NoEdit EXCEPT !.op = "loopSequence"]
  /\ UNCHANGED <<patternId, chordKey, variantIdx, key, progression, sequence,
                 loopSingle>>
  /\ UNCHANGED <<audioVars, playerVars, pend, stopped, strumVars, pureVars, tunerVars, lastReject>>

\* the effect on [chordKey, variantIdx, instrument]: with both players
\* stopped it awaits startAudio() and then plays the voicing as an arpeggio
previewEffect ==
  IF singleTimerRef # NULL \/ seqTimerRef # NULL
  THEN UNCHANGED <<audioVars, playerVars, pend>>
  ELSE Call("preview", NoEnv)

SelectChord(k) ==
  /\ CanEdit
  /\ k # chordKey
  /\ chordKey' = k
  /\ variantIdx' = 0
  /\ edits' = edits + 1
  /\ lastEdit' = [NoEdit EXCEPT !.op = "chord"]
  /\ previewEffect
  /\ UNCHANGED <<patternId, key, progression, sequence, loopSequence, loopSingle>>
  /\ UNCHANGED <<stopped, strumVars, pureVars, tunerVars, lastReject>>

SelectVariant(v) ==
  /\ CanEdit
  /\ v # variantIdx
  /\ v < Len(CHORDS[chordKey])
  /\ variantIdx' = v
  /\ edits' = edits + 1
  /\ lastEdit' = [NoEdit EXCEPT !.op = "variant"]
  /\ previewEffect
  /\ UNCHANGED <<patternId, chordKey, key, progression, sequence,
                 loopSequence, loopSingle>>
  /\ UNCHANGED <<stopped, strumVars, pureVars, tunerVars, lastReject>>

(* ---------------------------------------------------------------------- *)
(* Sequence editing                                                        *)
(* ---------------------------------------------------------------------- *)
SetSequence(op, idx, s) ==
  /\ CanEdit
  /\ sequence' = s
  /\ edits' = edits + 1
  /\ lastEdit' = [op |-> op, idx |-> idx, before |-> sequence]
  /\ UNCHANGED <<patternId, chordKey, variantIdx, loopSequence, loopSingle>>
  /\ UNCHANGED <<audioVars, playerVars, pend, stopped, strumVars, pureVars, tunerVars, lastReject>>

handleKeyChange(newKey) ==
  /\ newKey # key
  /\ key' = newKey
  /\ SetSequence("key", -1, sequenceFromSymbols(buildSequenceFromProgression(newKey, progression)))
  /\ UNCHANGED progression

handleProgressionChange(newProg) ==
  /\ newProg # progression
  /\ progression' = newProg
  /\ SetSequence("progression", -1,
                 sequenceFromSymbols(buildSequenceFromProgression(key, newProg)))
  /\ UNCHANGED key

\* "+ Adicionar compasso"
appendBar(seq) ==
  Append(seq, [key |-> IF Len(seq) > 0 THEN seq[Len(seq)].key ELSE "C",
               varIdx |-> 0, degreeIdx |-> -1])

AppendBar ==
  /\ Len(sequence) < MaxLen
  /\ SetSequence("append", -1, appendBar(sequence))
  /\ UNCHANGED <<key, progression>>

\* mutant: the spliced copy is stored as it is
removeBar_mayEmpty(seq, idx) == RemoveAt(seq, idx + 1)

\* the "-" button of bar idx: copy.splice(idx, 1), never left empty
removeBar(seq, idx) ==
  LET copy == RemoveAt(seq, idx + 1)
  IN  IF Len(copy) > 0 THEN copy
      ELSE << [key |-> "C", varIdx |-> 0, degreeIdx |-> 0] >>

RemoveBar(idx) ==
  /\ SetSequence("remove", idx, removeBar(sequence, idx))
  /\ UNCHANGED <<key, progression>>

barAlternatives(it) ==
  IF it.degreeIdx >= 0 THEN getAlternativesForDegree(it.degreeIdx, key, progression)
  ELSE <<>>

hasAlternatives(it) == Len(barAlternatives(it)) > 1

\* mutant: a bar given another chord starts again from its first voicing
setBarKey_resetVariant(seq, idx, k) ==
  [seq EXCEPT ![idx + 1].key = k, ![idx + 1].varIdx = 0]

\* copy[idx] = { ...copy[idx], key: k } and copy[idx] = { ...copy[idx], varIdx: v }
setBarKey(seq, idx, k) == [seq EXCEPT ![idx + 1].key = k]
setBarVariant(seq, idx, v) == [seq EXCEPT ![idx + 1].varIdx = v]

\* an alternative-chord button of bar idx (shown when the bar has alternatives)
AlternativeClick(idx, j) ==
  /\ hasAlternatives(sequence[idx + 1])
  \* pressing the button of the chord already selected changes nothing
  /\ mapSymbolToDictKey(barAlternatives(sequence[idx + 1])[j]) # sequence[idx + 1].key
  /\ SetSequence("alternative", idx,
                 setBarKey(sequence, idx,
                           mapSymbolToDictKey(barAlternatives(sequence[idx + 1])[j])))
  /\ UNCHANGED <<key, progression>>

\* the chord select of bar idx (shown when the bar has no alternatives)
ChangeBarChord(idx, k) ==
  /\ ~hasAlternatives(sequence[idx + 1])
  /\ k # sequence[idx + 1].key
  /\ SetSequence("barChord", idx, setBarKey(sequence, idx, k))
  /\ UNCHANGED <<key, progression>>

\* the variant select of bar idx
ChangeBarVariant(idx, v) ==
  /\ v # sequence[idx + 1].varIdx
  /\ v < Len(CHORDS[sequence[idx + 1].key])
  /\ SetSequence("barVariant", idx, setBarVariant(sequence, idx, v))
  /\ UNCHANGED <<key, progression>>

\* the bars whose controls are used: the first and the last
ModelBars == {0, Len(sequence) - 1}

(* ---------------------------------------------------------------------- *)
(* The application: players, audio device and the controls used while      *)
(* they run                                                                *)
(* ---------------------------------------------------------------------- *)
Next ==
  \/ ResumeGranted
  \/ FontLoaded
  \/ Microtask
  \/ PlaySingleClick
  \/ StopSingleClick
  \/ PlaySequenceClick
  \/ StopSequenceClick
  \/ SingleTick
  \/ SeqTick
  \/ \E p \in ModelPatterns : edits < MaxEdits /\ SelectPattern(p)
  \/ edits < MaxEdits /\ ToggleLoopSingle
  \/ edits < MaxEdits /\ ToggleLoopSequence
  \/ \E k \in ModelChords : edits < MaxEdits /\ SelectChord(k)
  \/ \E v \in ModelVariants : edits < MaxEdits /\ SelectVariant(v)
  \/ edits < MaxEdits /\ AppendBar
  \/ \E idx \in ModelBars : edits < MaxEdits /\ RemoveBar(idx)
  \/ \E idx \in ModelBars :
       \E j \in 1..Len(barAlternatives(sequence[idx + 1])) :
         edits < MaxEdits /\ AlternativeClick(idx, j)
  \/ \E idx \in ModelBars, v \in ModelVariants :
       edits < MaxEdits /\ ChangeBarVariant(idx, v)

Spec == Init /\ [][Next]_vars

(* ---------------------------------------------------------------------- *)
(* The sequence editor alone: every control that rewrites the sequence     *)
(* ---------------------------------------------------------------------- *)
NextEdit ==
  \/ \E k \in ModelKeys : edits < MaxSeqEdits /\ handleKeyChange(k)
  \/ \E pr \in ModelProgressions : edits < MaxSeqEdits /\ handleProgressionChange(pr)
  \/ edits < MaxSeqEdits /\ AppendBar
  \/ \E idx \in ModelBars : edits < MaxSeqEdits /\ RemoveBar(idx)
  \/ \E idx \in ModelBars :
       \E j \in 1..Len(barAlternatives(sequence[idx + 1])) :
         edits < MaxSeqEdits /\ AlternativeClick(idx, j)
  \/ \E idx \in ModelBars, k \in ModelBarChords :
       edits < MaxSeqEdits /\ ChangeBarChord(idx, k)
  \/ \E idx \in ModelBars, v \in ModelVariants :
       edits < MaxSeqEdits /\ ChangeBarVariant(idx, v)

SpecEdit == Init /\ [][NextEdit]_vars

(* ---------------------------------------------------------------------- *)
(* The tuner alone                                                         *)
(* ---------------------------------------------------------------------- *)
NextTuner ==
  \/ TunerStartClick
  \/ TunerStopClick
  \/ MicGranted
  \/ MicDenied
  \/ TunerFrame

SpecTuner == Init /\ [][NextTuner]_vars

(* ---------------------------------------------------------------------- *)
(* The two players with an audio device that can fail                      *)
(* ---------------------------------------------------------------------- *)
NextDevice ==
  \/ ResumeGranted
  \/ ResumeRejected
  \/ FontLoaded
  \/ FontFailed
  \/ Microtask
  \/ PlaySingleClick
  \/ StopSingleClick
  \/ PlaySequenceClick
  \/ StopSequenceClick
  \/ SingleTick
  \/ SeqTick

SpecDevice == Init /\ [][NextDevice]_vars

(* ---------------------------------------------------------------------- *)
(* The two players and the tuner side by side                               *)
(* ---------------------------------------------------------------------- *)
\* microphone requests made in this specification
MaxMicBoth == 1

NextBoth ==
  \/ ResumeGranted
  \/ FontLoaded
  \/ Microtask
  \/ PlaySingleClick
  \/ StopSingleClick
  \/ PlaySequenceClick
  \/ StopSequenceClick
  \/ SingleTick
  \/ SeqTick
  \/ Cardinality(streams) + Len(micPend) < MaxMicBoth /\ TunerStartClick
  \/ TunerStopClick
  \/ MicGranted
  \/ MicDenied
  \/ TunerFrame

SpecBoth == Init /\ [][NextBoth]_vars

(* ---------------------------------------------------------------------- *)
(* What a render looks up: the sequence player with the bar controls that   *)
(* can leave a variant index or the playing bar index out of bounds          *)
(* ---------------------------------------------------------------------- *)
\* the now-playing panel is rendered:
\* isPlayingSequence && currentBar >= 0 && currentBar < sequence.length
panelShown ==
  isPlayingSequence /\ currentBar >= 0 /\ currentBar < Len(sequence)

\* the array lookups of a render and of the live bar of the player, each
\* with the length of the array and the index used
renderLookups ==
  << [at |-> "currentVoicing", size |-> Len(CHORDS[chordKey]),
      index |-> Min2(variantIdx, Len(CHORDS[chordKey]) - 1)],
     [at |-> "quickLabel", size |-> Len(CHORDS[chordKey]), index |-> variantIdx] >>
  \o (IF panelShown
      THEN LET it == sequence[currentBar + 1]
           IN  << [at |-> "panelBar", size |-> Len(sequence), index |-> currentBar],
                  [at |-> "panelShape", size |-> Len(CHORDS[it.key]),
                   index |-> Min2(it.varIdx, Len(CHORDS[it.key]) - 1)],
                  [at |-> "panelLabel", size |-> Len(CHORDS[it.key]),
                   index |-> it.varIdx] >>
      ELSE <<>>)

playerLookups ==
  {[at |-> "playerBar", size |-> Len(t.env.seq), index |-> t.bar] :
     t \in {u \in timers : u.owner = "seq"}}
  \cup
  {[at |-> "playerVoicing",
    size |-> Len(CHORDS[t.env.seq[t.bar + 1].key]),
    index |-> Min2(t.env.seq[t.bar + 1].varIdx,
                   Len(CHORDS[t.env.seq[t.bar + 1].key]) - 1)] :
     t \in {u \in timers : u.owner = "seq" /\ u.bar < Len(u.env.seq)}}

\* variants offered by the variant select of a bar whose chord has them
ShowVariants == {2, 4}

NextShow ==
  \/ ResumeGranted
  \/ FontLoaded
  \/ Microtask
  \/ PlaySequenceClick
  \/ StopSequenceClick
  \/ SeqTick
  \/ \E idx \in ModelBars : edits < MaxShowEdits /\ RemoveBar(idx)
  \/ \E idx \in ModelBars :
       \E j \in 1..Len(barAlternatives(sequence[idx + 1])) :
         edits < MaxShowEdits /\ AlternativeClick(idx, j)
  \/ \E idx \in ModelBars, v \in ShowVariants :
       edits < MaxShowEdits /\ ChangeBarVariant(idx, v)

SpecShow == Init /\ [][NextShow]_vars

(* ---------------------------------------------------------------------- *)
(* The sequence player with every control of the bars                      *)
(* ---------------------------------------------------------------------- *)
NextBars ==
  \/ ResumeGranted
  \/ FontLoaded
  \/ Microtask
  \/ PlaySequenceClick
  \/ StopSequenceClick
  \/ SeqTick
  \/ edits < MaxShowEdits /\ AppendBar
  \/ \E idx \in ModelBars : edits < MaxShowEdits /\ RemoveBar(idx)
  \/ \E idx \in ModelBars :
       \E j \in 1..Len(barAlternatives(sequence[idx + 1])) :
         edits < MaxShowEdits /\ AlternativeClick(idx, j)
  \/ \E idx \in ModelBars, k \in ModelBarChords :
       edits < MaxShowEdits /\ ChangeBarChord(idx, k)
  \/ \E idx \in ModelBars, v \in ModelVariants :
       edits < MaxShowEdits /\ ChangeBarVariant(idx, v)

SpecBars == Init /\ [][NextBars]_vars

(* ---------------------------------------------------------------------- *)
(* The strum scheduler alone: playChordStrum applied to every voicing of   *)
(* the dictionary, every pattern's accents, both directions, every step    *)
(* ---------------------------------------------------------------------- *)
AllShapes ==
  UNION {{CHORDS[k][v] : v \in 1..Len(CHORDS[k])} : k \in CHORD_KEYS}

StrumInputs ==
  [set : {TRUE}, shape : AllShapes, pat : DOMAIN PATTERNS,
   isDown : BOOLEAN, stepIdx : 0..(StepsPerBar - 1)]

InitStrum ==
  AppInit /\ strumIn \in StrumInputs /\ strumOut = NoOut /\ RootIdle /\ PitchIdle

ApplyStrum ==
  /\ strumIn.set
  /\ ~strumOut.done
  /\ strumOut' = [done |-> TRUE,
                  calls |-> playChordStrum(strumIn.shape, accentMap(strumIn.pat),
                                           strumIn.isDown, strumIn.stepIdx)]
  /\ UNCHANGED <<audioVars, uiVars, playerVars, pend, stopped, strumIn, pureVars, tunerVars, lastReject>>

NextStrum == ApplyStrum

SpecStrum == InitStrum /\ [][NextStrum]_vars

(* ---------------------------------------------------------------------- *)
(* The root lookup alone: voicingMidis, findRootMidi and playRootHit        *)
(* applied to every voicing of the dictionary and every root name           *)
(* ---------------------------------------------------------------------- *)
RootNames == {CHROMA[i] : i \in 1..Len(CHROMA)}

RootInputs == [set : {TRUE}, shape : AllShapes, rootName : RootNames]

InitRoot ==
  AppInit /\ StrumIdle /\ rootIn \in RootInputs /\ rootOut = NoRootOut /\ PitchIdle

ApplyRoot ==
  /\ rootIn.set
  /\ ~rootOut.done
  /\ rootOut' =
       LET mids == voicingMidis(rootIn.shape)
       IN  [done |-> TRUE,
            midis |-> mids,
            root |-> IF Len(mids) = 0 THEN NULL
                     ELSE findRootMidi(mids, rootIn.rootName),
            calls |-> playRootHit(rootIn.shape, rootIn.rootName)]
  /\ UNCHANGED <<audioVars, uiVars, playerVars, pend, stopped, strumVars,
                 rootIn, pitchIn, pitchOut, tunerVars, lastReject>>

NextRoot == ApplyRoot

SpecRoot == InitRoot /\ [][NextRoot]_vars

(* ---------------------------------------------------------------------- *)
(* The lag selection of the pitch detector alone                            *)
(* ---------------------------------------------------------------------- *)
ModelScores == {-20, 90, 91, 95, 100}
ModelRates == {44100, 48000}

ScoreInputs ==
  [set : {TRUE}, silent : BOOLEAN, sampleRate : ModelRates,
   scores : [MIN_SAMPLES..(MaxLag - 1) -> ModelScores]]

InitPitch ==
  AppInit /\ StrumIdle /\ RootIdle /\ pitchIn \in ScoreInputs /\ pitchOut = NoDetect

ApplyDetect ==
  /\ pitchIn.set
  /\ ~pitchOut.done
  /\ pitchOut' = [done |-> TRUE, f |-> autoCorrelate(pitchIn)]
  /\ UNCHANGED <<audioVars, uiVars, playerVars, pend, stopped, strumVars,
                 rootIn, rootOut, pitchIn, tunerVars, lastReject>>

NextPitch == ApplyDetect

SpecPitch == InitPitch /\ [][NextPitch]_vars

(* ---------------------------------------------------------------------- *)
(* Properties                                                              *)
(* ---------------------------------------------------------------------- *)
\* a player is active while it holds a timer handle or an interval of its
\* own is still registered with the browser
SingleActive == singleTimerRef # NULL \/ \E t \in timers : t.owner = "single"
SeqActive == seqTimerRef # NULL \/ \E t \in timers : t.owner = "seq"

\* an interval callback of the given player runs in this step
SeqTicked == lastTick' # lastTick /\ lastTick'.owner = "seq"
SingleTicked == lastTick' # lastTick /\ lastTick'.owner = "single"

\* C1: at no time are the single-chord player and the sequence player both
\* active: never two timer handles, never live intervals of both players.
C1_MutualExclusion ==
  /\ ~(SingleActive /\ SeqActive)
  /\ ~(singleTimerRef # NULL /\ seqTimerRef # NULL)
  /\ Cardinality(timers) <= 1

\* the sequence player runs after its play found the single-chord timer live
C1_Witness == seqSess.on /\ seqSess.took /\ SeqActive /\ lastTick.owner = "seq"

\* C2 (as the specification states it): at every bar transition of the
\* sequence player the next bar is taken from the live sequence: the bar
\* index wraps or ends at the live length, and the interval started for the
\* next bar plays the item the live sequence holds at that index.
C2_LiveReread ==
  [][ (SeqTicked /\ lastTick'.idx = 7) =>
        LET nb == lastTick'.bar + 1
            b  == IF nb >= Len(sequence) THEN 0 ELSE nb
        IN  IF nb >= Len(sequence) /\ ~seqSess.loop
            THEN ~SeqActive'
            ELSE /\ currentBar' = b
                 /\ \A t \in timers' :
                      t.owner = "seq" =>
                        /\ t.bar = b
                        /\ t.env.seq[t.bar + 1] = sequence[b + 1] ]_vars

\* C3: a looping sequence session of N bars plays bar 0, 1, .., N-1, 0, ..
\* with the eight steps 0..7 of each bar in order, and stays active with the
\* upcoming bar highlighted after every tick (N and the loop flag are those
\* the play handler closed over).
C3_LoopOrder ==
  [][ (SeqTicked /\ seqSess.on /\ seqSess.loop) =>
        /\ lastTick'.stepIdx = lastTick'.idx
        /\ IF lastTick.owner = "seq"
           THEN IF lastTick.idx = 7
                THEN /\ lastTick'.idx = 0
                     /\ lastTick'.bar = (lastTick.bar + 1) % seqSess.len
                ELSE /\ lastTick'.idx = lastTick.idx + 1
                     /\ lastTick'.bar = lastTick.bar
           ELSE lastTick'.bar = 0 /\ lastTick'.idx = 0
        /\ seqTimerRef' # NULL /\ SeqActive' /\ isPlayingSequence'
        /\ currentBar' = IF lastTick'.idx = 7
                         THEN (lastTick'.bar + 1) % seqSess.len
                         ELSE lastTick'.bar ]_vars

\* the last step of the last bar has played and the player is back on bar 0
C3_Witness ==
  /\ seqSess.on /\ seqSess.loop /\ seqSess.len >= 2
  /\ lastTick.owner = "seq" /\ lastTick.bar = seqSess.len - 1 /\ lastTick.idx = 7
  /\ currentBar = 0 /\ SeqActive

\* C4: a non-looping sequence session of N bars runs exactly 8 * N ticks:
\* before the last one the player is active on bar n \div 8, step n % 8; after
\* it the timer handle is null, no interval is live, the playing flag is
\* false and no bar is highlighted, so no further tick can follow.
C4_RunsToEnd ==
  (seqSess.on /\ ~seqSess.loop) =>
    /\ seqSess.n <= StepsPerBar * seqSess.len
    /\ seqSess.n < StepsPerBar * seqSess.len =>
         /\ seqTimerRef # NULL /\ SeqActive /\ isPlayingSequence
         /\ seqBarIdxRef = seqSess.n \div StepsPerBar
         /\ seqStepIdxRef = seqSess.n % StepsPerBar
         /\ currentBar = seqSess.n \div StepsPerBar
    /\ seqSess.n = StepsPerBar * seqSess.len =>
         /\ seqTimerRef = NULL /\ ~SeqActive
         /\ ~isPlayingSequence
         /\ currentBar = -1

C4_Witness ==
  /\ seqSess.on /\ ~seqSess.loop /\ seqSess.len >= 2
  /\ seqSess.n = StepsPerBar * seqSess.len
  /\ lastTick.owner = "seq" /\ lastTick.bar = seqSess.len - 1 /\ lastTick.idx = 7

\* the single-chord session without loop, as a state predicate
SingleRunsToEnd ==
  (singleSess.on /\ ~singleSess.loop) =>
    /\ singleSess.n <= StepsPerBar
    /\ singleSess.n < StepsPerBar =>
         /\ singleTimerRef # NULL /\ SingleActive /\ isPlayingSingle
         /\ singleStepIdxRef = singleSess.n
    /\ singleSess.n = StepsPerBar =>
         /\ singleTimerRef = NULL /\ ~SingleActive /\ ~isPlayingSingle

\* C5: the single-chord player with loop resets its step index to 0 after
\* step 7 and keeps its timer, playing steps 0..7 over and over; without
\* loop it is idle, with the playing flag false, after exactly 8 steps.
C5_SingleBar ==
  [][ /\ SingleRunsToEnd'
      /\ (SingleTicked /\ singleSess.on /\ singleSess.loop) =>
           /\ lastTick'.stepIdx = lastTick'.idx
           /\ lastTick'.idx = IF lastTick.owner = "single"
                              THEN (lastTick.idx + 1) % StepsPerBar ELSE 0
           /\ singleStepIdxRef' = (lastTick'.idx + 1) % StepsPerBar
           /\ singleTimerRef' = singleTimerRef /\ singleTimerRef' # NULL
           /\ SingleActive' /\ isPlayingSingle' ]_vars

\* step 7 of a looping bar has played and the step index is back at 0
C5_Witness ==
  /\ singleSess.on /\ singleSess.loop
  /\ lastTick.owner = "single" /\ lastTick.idx = 7
  /\ singleStepIdxRef = 0 /\ SingleActive

\* C6: in every bar of either player the root is reinforced on the tick at
\* step 0 whatever the stroke there, and on no tick at steps 1..7: once per
\* bar.
C6_RootOncePerBar ==
  lastTick.owner # "none" =>
    /\ lastTick.idx \in 0..(StepsPerBar - 1)
    /\ Len(lastTick.rootNotes) = (IF lastTick.idx = 0 THEN 1 ELSE 0)
    /\ lastTick.barRoots = 1
    /\ lastTick.idx = 0 =>
         /\ lastTick.rootNotes[1].when = 0
         /\ lastTick.calls[1] = lastTick.rootNotes[1]

\* a bar whose step 0 is a rest has hit its root and has played on
C6_Witness ==
  /\ lastTick.owner # "none" /\ lastTick.idx = 3
  /\ lastTick.barRoots = 1
  /\ seqSess.on /\ PATTERNS[patternId].steps[1] = "-"
  /\ \A t \in timers : t.env.pat = patternId

\* C7: the stop button of a player clears its timer handle and leaves no
\* interval of it live, with the playing flag false (and no bar highlighted
\* for the sequence); until its play button is pressed again no callback
\* of that player runs, and the calls made by its last callback stay as
\* they were.
C7_Stop ==
  [][ /\ stopped' = "seq" =>
           /\ seqTimerRef' = NULL /\ ~SeqActive'
           /\ ~isPlayingSequence' /\ currentBar' = -1
           /\ ~SeqTicked
           /\ (stopped # "seq" => lastTick' = lastTick)
      /\ stopped' = "single" =>
           /\ singleTimerRef' = NULL /\ ~SingleActive'
           /\ ~isPlayingSingle'
           /\ ~SingleTicked
           /\ (stopped # "single" => lastTick' = lastTick) ]_vars

\* the sequence was stopped after a callback of it had dispatched notes
C7_Witness ==
  /\ stopped = "seq" /\ lastTick.owner = "seq" /\ Len(lastTick.calls) > 0
  /\ lastTick.idx \in 1..6

\* C8: the sequence is never empty, and removing the only bar of a
\* one-bar sequence leaves exactly one bar, the default placeholder.
C8_NeverEmpty ==
  /\ Len(sequence) >= 1
  /\ (lastEdit.op = "remove" /\ Len(lastEdit.before) = 1) =>
       sequence = << [key |-> "C", varIdx |-> 0, degreeIdx |-> 0] >>
  /\ (lastEdit.op = "remove" /\ Len(lastEdit.before) > 1) =>
       Len(sequence) = Len(lastEdit.before) - 1

\* the only bar, which was not the placeholder, has been removed
C8_Witness ==
  /\ lastEdit.op = "remove" /\ Len(lastEdit.before) = 1
  /\ lastEdit.before[1].key # "C"

\* C9: when a play handler finds the other player's timer running, the
\* other player is idle from then on (no handle, no live interval, playing
\* flag false) and runs no further callback; in both directions.
C9_Takeover ==
  /\ (seqSess.on /\ seqSess.took) =>
       /\ singleTimerRef = NULL /\ ~SingleActive
       /\ ~isPlayingSingle
       /\ lastTick.owner # "single"
  /\ (singleSess.on /\ singleSess.took) =>
       /\ seqTimerRef = NULL /\ ~SeqActive
       /\ ~isPlayingSequence
       /\ lastTick.owner # "seq"

\* the single-chord player took over from the sequence player and has played
C9_Witness ==
  singleSess.on /\ singleSess.took /\ lastTick.owner = "single" /\ SingleActive

\* the gap between two strings and the swing push, in units of 1/TimeDen s
strumGap == (strumMs * TimeDen) \div 1000

\* the strings a strum sounds, in visiting order
soundingStrings(shape, isDown) ==
  SelectSeq(IF isDown THEN <<0, 1, 2, 3, 4, 5>> ELSE <<5, 4, 3, 2, 1, 0>>,
            LAMBDA s : shape[s + 1] # X)

\* C10 (as the specification states it): the k-th emitted event of a strum,
\* counted from 0 over the sounding strings only, has onset k gaps after the
\* swing push: the first event is at the swing push and consecutive events
\* are one gap apart.
C10_GapPerSoundingString ==
  strumOut.done =>
    \A k \in 1..Len(strumOut.calls) :
      strumOut.calls[k].when = (k - 1) * strumGap + swingPush(strumIn.stepIdx)

\* C10 (amended): a strum emits one event per sounding string, in visiting
\* order, and the onset of the event of a string is its position in the
\* visiting order of all six strings, muted ones included, times the gap,
\* after the swing push: a muted string emits nothing but consumes its gap.
C10_GapPerVisitedString ==
  strumOut.done =>
    LET snd == soundingStrings(strumIn.shape, strumIn.isDown)
    IN  /\ Len(strumOut.calls) = Len(snd)
        /\ \A k \in 1..Len(snd) :
             LET s == snd[k]
                 pos == IF strumIn.isDown THEN s ELSE 5 - s
             IN  /\ strumOut.calls[k].midi = TUNING_MIDI[s + 1] + strumIn.shape[s + 1]
                 /\ strumOut.calls[k].when = pos * strumGap + swingPush(strumIn.stepIdx)

\* a down strum over a voicing whose first string is muted has been scheduled
C10_Witness ==
  /\ strumOut.done /\ strumIn.isDown /\ strumIn.shape[1] = X
  /\ strumIn.stepIdx % 2 = 1
  /\ Len(strumOut.calls) >= 2

\* a velocity of the strum, before clamping, in units of 1/VelDen: 0.9 times
\* the decay of position n (5% a string down, 4% up) times the accent
\* multiplier (1.0 on an accented step, 0.85 otherwise)
shapedVel(n, isDown, accented) ==
  (9 * (100 - (IF isDown THEN 5 ELSE 4) * n) * (IF accented THEN 100 ELSE 85))

clampVel(v) == IF v < VelDen \div 10 THEN VelDen \div 10
               ELSE IF v > VelDen THEN VelDen ELSE v

strumAccented == (strumIn.stepIdx % 8) \in PATTERNS[strumIn.pat].accents

\* C11 (as the specification states it): the velocity of the k-th emitted
\* event, counted from 0 over the sounding strings only, is 0.9 times the
\* positional decay of k times the accent multiplier, clamped to [0.10, 1].
C11_DecayPerSoundingString ==
  strumOut.done =>
    \A k \in 1..Len(strumOut.calls) :
      strumOut.calls[k].vel = clampVel(shapedVel(k - 1, strumIn.isDown, strumAccented))

\* C11 (amended): the velocity of the event of a sounding string is 0.9
\* times the positional decay of the string's position in the visiting order
\* of all six strings, muted ones included (5% a position down, 4% up),
\* times 1.0 on an accented step and 0.85 otherwise, clamped to [0.10, 1].
C11_DecayPerVisitedString ==
  strumOut.done =>
    LET snd == soundingStrings(strumIn.shape, strumIn.isDown)
    IN  /\ Len(strumOut.calls) = Len(snd)
        /\ \A k \in 1..Len(snd) :
             LET pos == IF strumIn.isDown THEN snd[k] ELSE 5 - snd[k]
             IN  strumOut.calls[k].vel =
                   clampVel(shapedVel(pos, strumIn.isDown, strumAccented))

\* a down strum on an unaccented step over a voicing whose first two strings
\* are muted has been scheduled
C11_Witness ==
  /\ strumOut.done /\ strumIn.isDown /\ ~strumAccented
  /\ strumIn.shape[1] = X /\ strumIn.shape[2] = X
  /\ Len(strumOut.calls) = 4

C13_OrderedAndBounded ==
  strumOut.done =>
    /\ \A k \in 1..Len(strumOut.calls) :
         /\ strumOut.calls[k].when >= 0
         /\ strumOut.calls[k].vel >= VelDen \div 10
         /\ strumOut.calls[k].vel <= VelDen
    /\ \A k \in 1..(Len(strumOut.calls) - 1) :
         strumOut.calls[k].when <= strumOut.calls[k + 1].when

\* a full six-string up strum on an odd step has been scheduled
C13_Witness ==
  /\ strumOut.done /\ ~strumIn.isDown /\ strumIn.stepIdx % 2 = 1
  /\ Len(strumOut.calls) = 6

\* swingFraction * (60 / bpm) / 2, in units of 1/TimeDen s
SwingShift == (swing * 60 * TimeDen) \div (100 * bpm * 2)

\* C14: the onsets of a strum on an odd step are those of the same strum on
\* the even step before it, each later by swing * (60 / bpm) / 2; on an even
\* step the onsets carry no push: the first visited string is at offset 0.
C14_SwingShift ==
  strumOut.done =>
    LET even == playChordStrum(strumIn.shape, accentMap(strumIn.pat),
                               strumIn.isDown,
                               strumIn.stepIdx - (strumIn.stepIdx % 2))
        snd == soundingStrings(strumIn.shape, strumIn.isDown)
    IN  /\ Len(even) = Len(strumOut.calls)
        /\ \A k \in 1..Len(even) :
             /\ even[k].when =
                  (IF strumIn.isDown THEN snd[k] ELSE 5 - snd[k]) * strumGap
             /\ strumOut.calls[k].when =
                  even[k].when + (IF strumIn.stepIdx % 2 = 1 THEN SwingShift ELSE 0)

\* a strum on the odd step 5 has been scheduled
C14_Witness ==
  /\ strumOut.done /\ strumIn.stepIdx = 5 /\ Len(strumOut.calls) >= 4
  /\ strumOut.calls[1].when >= SwingShift

\* a session has ended by its stop button or by running out with loop off
SeqEnded ==
  /\ seqTimerRef = NULL
  /\ \/ stopped = "seq"
     \/ seqSess.on /\ ~seqSess.loop /\ seqSess.n = StepsPerBar * seqSess.len
SingleEnded ==
  /\ singleTimerRef = NULL
  /\ \/ stopped = "single"
     \/ singleSess.on /\ ~singleSess.loop /\ singleSess.n = StepsPerBar

\* C20 (as the specification states it): when a session has ended by stop
\* or by natural completion with loop off, its timer is cleared and its step
\* index (and bar index, for the sequence) are back at their initial value 0.
C20_IndicesResetAtEnd ==
  /\ SeqEnded => ~SeqActive /\ seqStepIdxRef = 0 /\ seqBarIdxRef = 0
  /\ SingleEnded => ~SingleActive /\ singleStepIdxRef = 0

\* C20 (amended): when a session ends its timer is cleared, its playing flag
\* is false and (for the sequence) no bar is highlighted, but the index refs
\* are left as they are: stop does not touch them, natural completion leaves
\* the step index at 8 and the bar index at the number of bars; they are set
\* to 0 when the next session starts.
C20_IndicesResetAtStart ==
  [][ /\ (stopped' = "seq" /\ stopped # "seq") =>
           /\ seqTimerRef' = NULL /\ ~SeqActive'
           /\ ~isPlayingSequence' /\ currentBar' = -1
           /\ seqStepIdxRef' = seqStepIdxRef /\ seqBarIdxRef' = seqBarIdxRef
      /\ (stopped' = "single" /\ stopped # "single") =>
           /\ singleTimerRef' = NULL /\ ~SingleActive'
           /\ ~isPlayingSingle'
           /\ singleStepIdxRef' = singleStepIdxRef
      /\ (SeqTicked /\ ~SeqActive') =>
           /\ seqTimerRef' = NULL
           /\ ~isPlayingSequence' /\ currentBar' = -1
           /\ seqStepIdxRef' = StepsPerBar /\ seqBarIdxRef' = seqSess.len
      /\ (SingleTicked /\ ~SingleActive') =>
           /\ singleTimerRef' = NULL
           /\ ~isPlayingSingle'
           /\ singleStepIdxRef' = StepsPerBar
      /\ (seqSess'.on /\ lastTick' = NoTick) =>
           /\ SeqActive' /\ seqStepIdxRef' = 0 /\ seqBarIdxRef' = 0
      /\ (singleSess'.on /\ lastTick' = NoTick) =>
           /\ SingleActive' /\ singleStepIdxRef' = 0 ]_vars

\* the sequence was stopped in the middle of its second bar
C20_Witness ==
  /\ stopped = "seq" /\ seqTimerRef = NULL /\ ~isPlayingSequence
  /\ seqBarIdxRef = 1 /\ seqStepIdxRef = 3

\* C19 (as the specification states it): no lookup of a voicing or of a
\* bar uses an index outside the bounds of its array: a stale variant index
\* is clamped to the last variant wherever a voicing is looked up, and the
\* playing bar index is never used beyond the sequence.
C19_LookupsInBounds ==
  /\ \A i \in 1..Len(renderLookups) :
       renderLookups[i].index >= 0 /\ renderLookups[i].index < renderLookups[i].size
  /\ \A l \in playerLookups : l.index >= 0 /\ l.index < l.size

NoSignal == freq = NULL /\ note = "-" /\ cents = 0

\* C15 (as the specification states it): while the tuner's running flag is
\* false no buffer is captured and no frame callback runs or is scheduled,
\* and the published frequency, note and cents are null, "-" and 0.
C15_StoppedIsSilent ==
  ~running =>
    /\ tunerLast \notin {"granted", "frame"}
    /\ rafs = {}
    /\ NoSignal

\* C16 (as the specification states it): after stop every stream acquired
\* by an earlier start is closed, no frame callback stays scheduled and the
\* outputs are reset; a stream granted to a start that was waiting when
\* stop ran does not stay open.
C16_StopReleasesAll ==
  /\ tunerLast = "stop" =>
       /\ \A x \in streams : ~x.open
       /\ rafs = {} /\ rafRef = NULL /\ srcRef = NULL
       /\ NoSignal
  /\ \A x \in streams : x.stale => ~x.open

\* C17 (as the specification states it): when the microphone request of a
\* start is rejected the tuner is stopped: running is false, no frame
\* callback is scheduled and no new request has been made.
C17_DeniedLeavesStopped ==
  tunerLast = "denied" =>
    /\ ~running
    /\ rafRef = NULL
    /\ \A i \in 1..Len(micPend) : micPend[i].stale

\* a step in which the await of a waiting call rejects: no continuation is
\* due (NoReady) and a waiting call goes away
DeviceRejected == NoReady /\ Len(pend') < Len(pend)

PlayersIdle ==
  /\ timers = {} /\ singleTimerRef = NULL /\ seqTimerRef = NULL
  /\ ~isPlayingSingle /\ ~isPlayingSequence

\* C18: when the audio device is refused to a play (resume() or the sound
\* font load rejects), that play starts no timer and sets no flag: the
\* players are exactly as they were, idle if they were idle, and no new
\* request is made in its place.
C18_RejectedPlayStartsNothing ==
  [][DeviceRejected =>
       /\ UNCHANGED playerVars
       /\ \E i \in 1..Len(pend) : pend' = RemoveAt(pend, i)
       /\ PlayersIdle => PlayersIdle']_vars

C18_Witness ==
  /\ lastReject \in {"single", "seq"}
  /\ PendingPlays = 0
  /\ PlayersIdle
  /\ seqSess = NoSess /\ singleSess = NoSess

\* C21 (as the specification states it): between handlers and callbacks the
\* step index of each player is within 0..7.
C21_StepAlwaysInBar ==
  /\ singleStepIdxRef \in 0..(StepsPerBar - 1)
  /\ seqStepIdxRef \in 0..(StepsPerBar - 1)

\* C21 (amended): between handlers and callbacks the step index of a player
\* whose timer is live is within 0..7; the index of a player whose session
\* ended with its last bar rests at 8 until the next play resets it, and is
\* never anything else.
C21_StepInBarWhileLive ==
  /\ singleStepIdxRef \in 0..StepsPerBar
  /\ seqStepIdxRef \in 0..StepsPerBar
  /\ SingleActive => singleStepIdxRef \in 0..(StepsPerBar - 1)
  /\ SeqActive => seqStepIdxRef \in 0..(StepsPerBar - 1)
  /\ singleStepIdxRef = StepsPerBar => ~SingleActive /\ ~isPlayingSingle
  /\ seqStepIdxRef = StepsPerBar => ~SeqActive /\ ~isPlayingSequence

C21_Witness ==
  /\ SingleActive /\ singleStepIdxRef = StepsPerBar - 1
  /\ seqStepIdxRef = StepsPerBar /\ ~SeqActive

\* the strings of a voicing that are not muted, and the k-th of them from
\* the low string
nonMuted(shape) == {s \in 1..6 : shape[s] # X}
kthString(shape, k) ==
  CHOOSE s \in nonMuted(shape) :
    Cardinality({r \in nonMuted(shape) : r < s}) = k - 1

\* C22: for every voicing the playable pitches are as many as the strings
\* that are not muted, in string order from low to high, and each is the
\* tuning of its string plus the fret of that string.
C22_PlayablePitches ==
  rootOut.done =>
    LET m == rootOut.midis
        sh == rootIn.shape
    IN  /\ Len(m) = Cardinality(nonMuted(sh))
        /\ \A k \in 1..Len(m) :
             m[k] = TUNING_MIDI[kthString(sh, k)] + sh[kthString(sh, k)]

C22_Witness ==
  /\ rootOut.done
  /\ \E s \in 1..6 : rootIn.shape[s] = X
  /\ \E s \in 1..6 : rootIn.shape[s] = 0
  /\ Len(rootOut.midis) \in 1..5

pitchClass(m) == ((m % 12) + 12) % 12
midiSet(m) == {m[k] : k \in 1..Len(m)}

\* C23: for every voicing with a string that is not muted and every root
\* pitch class the root pitch is one of the playable pitches: the lowest
\* of those in the root's pitch class or, when there is none, the lowest
\* of all.
C23_RootPitch ==
  rootOut.done /\ Len(rootOut.midis) > 0 =>
    LET all == midiSet(rootOut.midis)
        pc == (CHOOSE i \in 1..Len(CHROMA) : CHROMA[i] = rootIn.rootName) - 1
        inPc == {m \in all : pitchClass(m) = pc}
        from == IF inPc # {} THEN inPc ELSE all
    IN  /\ rootOut.root \in from
        /\ \A m \in from : rootOut.root <= m

C23_Witness ==
  /\ rootOut.done /\ Len(rootOut.midis) > 0
  /\ pitchClass(rootOut.root) = toIndex(rootIn.rootName)
  /\ \E m \in midiSet(rootOut.midis) : m < rootOut.root

\* C29: the root reinforcement is one note: the root pitch of the voicing
\* and the chord's root, at offset 0, with velocity 1.0 and lasting
\* max(0.22 s, sustain).
C29_RootEvent ==
  rootOut.done /\ Len(rootOut.midis) > 0 =>
    /\ Len(rootOut.calls) = 1
    /\ rootOut.calls[1].midi = rootOut.root
    /\ rootOut.calls[1].when = 0
    /\ rootOut.calls[1].vel = VelDen
    /\ rootOut.calls[1].dur \in {RootMinDur, sustain}
    /\ rootOut.calls[1].dur >= RootMinDur
    /\ rootOut.calls[1].dur >= sustain

C29_Witness ==
  /\ rootOut.done
  /\ Len(rootOut.calls) = 1
  /\ rootOut.calls[1].midi # rootOut.midis[1]
  /\ rootOut.calls[1].dur = sustain

\* a step in which loop() ran and autoCorrelate returned -1
SilentLoop == tunerLast' \in {"granted", "frame"} /\ heard' = NoPitch.f

\* C24: a run of the detector's loop that finds no signal leaves the
\* published frequency, note and cents as they were, leaves the running
\* flag as it was and schedules the next run.
C24_SilentTickKeepsOutputs ==
  [][SilentLoop =>
       /\ freq' = freq /\ note' = note /\ cents' = cents
       /\ running' = running
       /\ rafRef' # NULL
       /\ \E r \in rafs' : r.id = rafRef']_vars

C24_Witness ==
  /\ tunerLast = "frame" /\ heard = NoPitch.f
  /\ running /\ freq # NULL /\ note # "-"
  /\ \E r \in rafs : r.id = rafRef

\* the lags that qualify: a score above 0.9 that is also above the score of
\* the lag just before
peakLags(scores) ==
  {o \in (MIN_SAMPLES + 1)..(MaxLag - 1) :
     scores[o] * 10 > 9 * ScoreDen /\ scores[o] > scores[o - 1]}

\* C25: from the scores of the lags the detector keeps the largest lag
\* whose score is above 0.9 and above the score of the lag before it, and
\* reports sampleRate / that lag; when no lag qualifies it reports no
\* signal.
C25_LastPeakWins ==
  pitchOut.done /\ ~pitchIn.silent =>
    LET q == peakLags(pitchIn.scores)
    IN  /\ q = {} => pitchOut.f = NoPitch.f
        /\ q # {} =>
             \E o \in q :
               /\ \A p \in q : p <= o
               /\ pitchOut.f = (pitchIn.sampleRate * FreqDen) \div o

C25_Witness ==
  /\ pitchOut.done /\ ~pitchIn.silent
  /\ Cardinality(peakLags(pitchIn.scores)) >= 2
  /\ pitchOut.f = (pitchIn.sampleRate * FreqDen) \div (MaxLag - 1)
  /\ \E o \in peakLags(pitchIn.scores) :
       pitchIn.scores[o] > pitchIn.scores[MaxLag - 1]

\* C26 (as the specification states it): one audio context at most is ever
\* constructed, and the tuner works on the context of the players.
C26_OneSharedContext ==
  /\ Cardinality(audioCtxs) <= 1
  /\ tunerCtxRef # NULL => tunerCtxRef = sfCtxRef

\* what the claim names of the players and of the tuner
PlayerState ==
  <<timers, singleTimerRef, seqTimerRef, singleStepIdxRef, seqStepIdxRef,
    seqBarIdxRef, isPlayingSingle, isPlayingSequence, currentBar>>
TunerState ==
  <<running, freq, note, cents, srcRef, rafRef, streams, rafs, micPend>>

\* C27: no step changes both the tuner and the players: a start, stop,
\* microphone answer or frame of the tuner leaves every timer, step and bar
\* index, now-playing flag and the highlight as they were, and a play,
\* stop, tick or audio answer of the players leaves the tuner's running
\* flag, streams, frames and published outputs as they were.
C27_Independent ==
  [][/\ tunerVars' # tunerVars => UNCHANGED <<PlayerState, pend, audioVars>>
     /\ (playerVars' # playerVars \/ pend' # pend \/ audioVars' # audioVars)
          => UNCHANGED TunerState]_vars

C27_Witness ==
  /\ isPlayingSequence /\ SeqActive /\ lastTick.owner = "seq" /\ currentBar = 1
  /\ tunerLast = "stop" /\ ~running /\ streams # {}

\* what a tick of the timer t at step s must have recorded: the stroke of
\* the pattern at s, a strum exactly for a down or up stroke, played in the
\* direction of the stroke for step s
StrokeHandled(rec, t, s, shape) ==
  LET st == PATTERNS[t.env.pat].steps[(s % StepsPerBar) + 1]
      strumCalls == SubSeq(rec.calls, Len(rec.rootNotes) + 1, Len(rec.calls))
      expected == playChordStrum(shape, accentMap(t.env.pat), st = "D", s)
  IN  /\ rec.stepIdx = s /\ rec.st = st
      /\ rec.strummed <=> st \in {"D", "U"}
      /\ st = "-" => strumCalls = <<>>
      /\ st \in {"D", "U"} =>
           /\ rec.isDown <=> st = "D"
           /\ strumCalls # <<>>
           /\ strumCalls[1] = expected[1]
           /\ instRef = "loaded" => strumCalls = expected

\* the step index after a tick at step s: one more, or the value the end
\* of the bar leaves (0 to go on, 8 at the end of the session)
Advanced(s, after) ==
  IF s + 1 < StepsPerBar THEN after = s + 1 ELSE after \in {0, StepsPerBar}

\* C28: a tick at step s strums exactly when the pattern's stroke at s is
\* Down or Up, in the direction of the stroke and for step s, never on a
\* rest, and then moves the step index on by one.
C28_StrumIffStroke ==
  [][/\ SingleTicked =>
          \E t \in timers :
            /\ t.id = singleTimerRef /\ t.owner = "single"
            /\ StrokeHandled(lastTick', t, singleStepIdxRef,
                             voicingOf(t.env.chord, t.env.vidx))
            /\ Advanced(singleStepIdxRef, singleStepIdxRef')
     /\ SeqTicked =>
          \E t \in timers :
            /\ t.id = seqTimerRef /\ t.owner = "seq"
            /\ StrokeHandled(lastTick', t, seqStepIdxRef,
                             voicingOf(t.env.seq[t.bar + 1].key,
                                       t.env.seq[t.bar + 1].varIdx))
            /\ Advanced(seqStepIdxRef, seqStepIdxRef')]_vars

C28_Witness ==
  /\ lastTick.owner = "seq" /\ lastTick.st = "-" /\ ~lastTick.strummed
  /\ lastTick.stepIdx = 4 /\ seqStepIdxRef = 5
  /\ instRef = "loaded"

\* the interval a timer ref names is live
SingleLive == singleTimerRef # NULL /\ \E t \in timers : t.id = singleTimerRef
SeqLive == seqTimerRef # NULL /\ \E t \in timers : t.id = seqTimerRef

\* C30: the now-playing flags mirror the timers: the single-chord flag is
\* true exactly when the single-chord timer is live, the sequence flag
\* exactly when the sequence timer is live, and no other interval is
\* live; so the two flags are never both true.
C30_FlagsMirrorTimers ==
  /\ isPlayingSingle <=> SingleLive
  /\ isPlayingSequence <=> SeqLive
  /\ isPlayingSingle <=> \E t \in timers : t.owner = "single"
  /\ isPlayingSequence <=> \E t \in timers : t.owner = "seq"
  /\ ~(isPlayingSingle /\ isPlayingSequence)

C30_Witness ==
  /\ isPlayingSingle /\ SingleLive /\ ~isPlayingSequence /\ ~SeqLive
  /\ singleSess.on /\ singleSess.took /\ lastTick.owner = "single"

\* C31: the bar highlight is -1 whenever the sequence player is idle, also
\* after the single-chord player was started, and while the sequence
\* player runs it is the index of the bar being played: the bar of the live
\* interval, which is the bar index the player holds.
C31_HighlightFollowsPlayer ==
  /\ ~isPlayingSequence => currentBar = -1
  /\ isPlayingSequence =>
       /\ currentBar = seqBarIdxRef
       /\ \E t \in timers : t.id = seqTimerRef /\ t.owner = "seq" /\ t.bar = currentBar
  /\ lastTick.owner = "seq" /\ isPlayingSequence =>
       currentBar = IF lastTick.idx = StepsPerBar - 1
                    THEN (lastTick.bar + 1) % seqSess.len
                    ELSE lastTick.bar

C31_Witness ==
  /\ isPlayingSingle /\ singleSess.on /\ singleSess.took
  /\ ~isPlayingSequence /\ currentBar = -1

\* C32: no interval is orphaned: every live interval is the one its
\* player's timer ref names, so each player has at most one, whatever the
\* order of plays (also over a running session), stops and bar
\* transitions; and after a stop nothing of that player is left to tick.
C32_NoOrphanTimer ==
  /\ \A t \in timers :
       /\ t.owner = "single" => t.id = singleTimerRef
       /\ t.owner = "seq" => t.id = seqTimerRef
  /\ Cardinality({t \in timers : t.owner = "single"}) <= 1
  /\ Cardinality({t \in timers : t.owner = "seq"}) <= 1
  /\ stopped = "single" => ~\E t \in timers : t.owner = "single"
  /\ stopped = "seq" => ~\E t \in timers : t.owner = "seq"

\* a sequence session that took over from a running single-chord session
\* has gone through a bar transition and holds the only live interval
C32_Witness ==
  /\ seqSess.on /\ seqSess.took /\ lastTick.owner = "seq" /\ lastTick.bar = 1
  /\ Cardinality(timers) = 1
  /\ \E t \in timers : t.id = seqTimerRef /\ t.bar = 1

\* the root and strum calls a tick at step s makes from what the timer t
\* holds (pattern, accents) and the voicing and root given
CapturedCalls(t, s, chord, vidx) ==
  LET st == PATTERNS[t.env.pat].steps[(s % StepsPerBar) + 1]
      shape == voicingOf(chord, vidx)
  IN  (IF s % StepsPerBar = 0 THEN playRootHit(shape, parseChordSymbol(chord).root)
       ELSE <<>>)
      \o (IF st = "-" THEN <<>>
          ELSE playChordStrum(shape, accentMap(t.env.pat), st = "D", s))

\* C33: a running session works on the loop flag, the pattern and (single
\* chord) the voicing of the render in which play was pressed. A control
\* used meanwhile changes nothing of the players; each tick plays the
\* stroke and the notes of what the session holds, the end of the bar is
\* decided by the loop flag it holds, and what it holds passes unchanged
\* from bar to bar and is what the controls showed at the press.
C33_SessionUsesCapture ==
  [][/\ edits' # edits => UNCHANGED playerVars
     /\ SingleTicked =>
          \E t \in timers :
            /\ t.id = singleTimerRef
            /\ lastTick'.st = PATTERNS[t.env.pat].steps[lastTick'.idx + 1]
            /\ instRef = "loaded" =>
                 lastTick'.calls =
                   CapturedCalls(t, singleStepIdxRef, t.env.chord, t.env.vidx)
            /\ lastTick'.idx = StepsPerBar - 1 =>
                 (isPlayingSingle' <=> t.env.loop)
            /\ \A u \in timers' : u.env = t.env
     /\ SeqTicked =>
          \E t \in timers :
            /\ t.id = seqTimerRef
            /\ lastTick'.st = PATTERNS[t.env.pat].steps[lastTick'.idx + 1]
            /\ instRef = "loaded" =>
                 lastTick'.calls =
                   CapturedCalls(t, seqStepIdxRef, t.env.seq[t.bar + 1].key,
                                 t.env.seq[t.bar + 1].varIdx)
            /\ (lastTick'.idx = StepsPerBar - 1 /\ t.bar = Len(t.env.seq) - 1) =>
                 (isPlayingSequence' <=> t.env.loop)
            /\ \A u \in timers' : u.env = t.env
     /\ \A u \in timers' \ timers :
          \/ \E t \in timers : t.owner = u.owner /\ t.env = u.env
          \/ \E i \in 1..Len(pend) : pend[i].at = "ready" /\ pend[i].env = u.env
          \/ NoReady /\ u.env = (IF u.owner = "single" THEN SingleEnv ELSE SeqEnv)
     /\ Len(pend') > Len(pend) =>
          LET e == pend'[Len(pend')]
          IN  e.env = (CASE e.kind = "single" -> SingleEnv
                         [] e.kind = "seq" -> SeqEnv
                         [] OTHER -> NoEnv)]_vars

\* a sequence session started with the loop box ticked has wrapped to bar 0
\* and runs on while the box is cleared
C33_Witness ==
  /\ isPlayingSequence /\ lastTick.owner = "seq" /\ lastTick.idx = StepsPerBar - 1
  /\ currentBar = 0 /\ seqStepIdxRef = 0
  /\ lastEdit.op = "loopSequence" /\ ~loopSequence
  /\ \E t \in timers :
       /\ t.id = seqTimerRef /\ t.env.loop
       /\ lastTick.bar = Len(t.env.seq) - 1

\* C34 (as the specification states it): at any time at most one frame
\* callback of the tuner is scheduled and at most one microphone stream is
\* open, whatever the order of starts, stops and answers to the pending
\* microphone requests.
C34_OneLoopOneStream ==
  /\ Cardinality(rafs) <= 1
  /\ Cardinality({x \in streams : x.open}) <= 1

\* the bars of s other than bar k (0-based) are those of r, in order
OthersKept(s, r, k) ==
  /\ Len(s) = Len(r)
  /\ \A i \in 1..Len(r) : i # k + 1 => s[i] = r[i]

\* C35: a sequence edit changes its target only. Append adds one bar at
\* the end, with the chord of the bar that was last and variant 0, and
\* keeps the others; removing bar k of two or more deletes that bar and
\* keeps the others in order; a change of chord or variant of bar k changes
\* that field of that bar alone; and none changes a timer, a timer ref, a
\* step index or the bar index of a player.
C35_EditsTouchTargetOnly ==
  [][edits' # edits =>
       LET op == lastEdit'.op
           k == lastEdit'.idx
           n == Len(sequence)
       IN  /\ UNCHANGED <<timers, singleTimerRef, seqTimerRef, singleStepIdxRef,
                          seqStepIdxRef, seqBarIdxRef, currentBar>>
           /\ op = "append" =>
                /\ Len(sequence') = n + 1
                /\ SubSeq(sequence', 1, n) = sequence
                /\ sequence'[n + 1].key = sequence[n].key
                /\ sequence'[n + 1].varIdx = 0
           /\ (op = "remove" /\ n >= 2) =>
                /\ Len(sequence') = n - 1
                /\ \A i \in 1..(n - 1) :
                     sequence'[i] = IF i <= k THEN sequence[i] ELSE sequence[i + 1]
           /\ op \in {"alternative", "barChord"} =>
                /\ OthersKept(sequence', sequence, k)
                /\ sequence'[k + 1].key # sequence[k + 1].key
                /\ sequence'[k + 1] = [sequence[k + 1] EXCEPT
                                         !.key = sequence'[k + 1].key]
           /\ op = "barVariant" =>
                /\ OthersKept(sequence', sequence, k)
                /\ sequence'[k + 1].varIdx # sequence[k + 1].varIdx
                /\ sequence'[k + 1] = [sequence[k + 1] EXCEPT
                                         !.varIdx = sequence'[k + 1].varIdx]]_vars

\* the chord of the first bar was changed, after its variant, while the
\* sequence plays
C35_Witness ==
  /\ lastEdit.op \in {"alternative", "barChord"} /\ lastEdit.idx = 0
  /\ lastEdit.before[1].varIdx = 1 /\ sequence[1].varIdx = 1
  /\ sequence[1].key # lastEdit.before[1].key
  /\ isPlayingSequence /\ SeqActive /\ lastTick.owner = "seq"

====
